---- MODULE Spec2Model ----
(***************************************************************************)
(* A model of rig: the session reconciler (cmd/session.go, cmd/up.go,      *)
(* cmd/destroy.go, the rebuild command), the container-engine client it    *)
(* drives (internal/docker) and the interactive attachment                 *)
(* (Client.Attach).                                                        *)
(*                                                                         *)
(* The specifications of the module share its variables:                   *)
(*   Spec             the commands up / down / destroy / rebuild run one   *)
(*                    after the other against one container engine;        *)
(*   SpecConcurrent   two reconciles of the same project side by side;     *)
(*   SpecAttach       one call of Client.Attach with its goroutines;       *)
(*   SpecAttachLive   SpecAttach with the goroutine of Attach and the copy *)
(*                    goroutines scheduled fairly;                         *)
(*   SpecAttachSched  SpecAttachLive with the resize goroutines scheduled  *)
(*                    fairly as well;                                      *)
(*   SpecAnywhere     reconciles started in several directories and host   *)
(*                    environments;                                        *)
(*   SpecPorts        the port functions applied to one list of specs;     *)
(*   SpecAllPorts     the ports of a configuration from Config.Validate to *)
(*                    CreateContainer;                                     *)
(*   SpecHash         the image tag computed for two configurations;       *)
(*   SpecImages       RemoveImagesByName applied to one list of images;    *)
(*   SpecInit         the init command run in a directory with or without  *)
(*                    a configuration file.                                *)
(***************************************************************************)
EXTENDS Integers, Sequences, FiniteSets, TLC

VARIABLES
    \* ---- Client.Attach (internal/docker, attach) ----
    apc,          \* position of the goroutine that runs Attach
    retval,       \* what Attach returns ("none" until it returns)
    defers,       \* Attach's stack of deferred calls, last pushed last
    stdinTTY,     \* term.IsTerminal(os.Stdin.Fd())
    ctxDone,      \* ctx.Done() is closed
    execs,        \* exec instances created in the container by this call
    termRaw,      \* the local terminal is in raw mode
    rawEntered,   \* term.SetRawTerminal succeeded in this call
    stream,       \* attachResp: "none", "open", "closed"
    sigNotify,    \* sigCh is registered for SIGWINCH
    sigCh,        \* number of signals buffered in sigCh (capacity 1)
    winch,        \* SIGWINCH signals the OS has raised so far
    teardown,     \* the deferred calls in the order they ran
    errCh,        \* the buffered result channel of the copy tasks
    copy,         \* copy[t]: state of copy task t
    copyErr,      \* copy[t]'s result once io.Copy has returned
    hr,           \* the handleResize goroutine
    sg,           \* the SIGWINCH goroutine
    resizes,      \* ContainerExecResize calls issued
    joinObs,      \* what the first select took: "none", "copy", "cancel"
    joinBoth,     \* when the first select ran, ctx was done and a clean result was next in errCh
    lateResize,   \* a ContainerExecResize was issued after the join fired
    resizeFailed, \* a resize propagation has failed: the window size could not
                  \* be read or ContainerExecResize returned an error
    initResize,   \* the initial resize: whether it has returned, and the state of
                  \* the stream and of the copy tasks when it ran
    \* ---- the container engine and the commands (cmd, internal/docker) ----
    configBytes,  \* the content of the configuration file in the working directory
    images,       \* the image references (repo:tag) the engine holds
    containers,   \* the engine's containers: [id, names, image, running]
    nextId,       \* the id the engine gives the next container it creates
    inv,          \* inv[p]: the command invocation of process p and its locals
    lastUp,       \* the configuration bytes of the invocation that ended last, when
                  \* it was a reconcile that reached Attach; NoUp otherwise
    \* ---- the functions applied to one input (ports, image tags) ----
    portsIn,      \* cfg.Ports: the list of port specs of the configuration
    codeServerIn, \* cfg.CodeServer and cfg.CodeServerPort
    validated,    \* the result of Config.Validate on portsIn, once it has run
    parsed,       \* the result of parsePortMappings on portsIn, once it has run
    dataA,        \* the bytes of a configuration
    dataB,        \* the bytes of another configuration
    hashed,       \* the tags and image references computed from dataA and dataB
    imageList,    \* what ImageList answers: the engine's images, each with its ID
                  \* and RepoTags
    rmResult      \* the result of RemoveImagesByName on imageList, once it has run

avars == <<apc, retval, defers, stdinTTY, ctxDone, execs, termRaw, rawEntered,
           stream, sigNotify, sigCh, winch, teardown, errCh, copy, copyErr,
           hr, sg, resizes, joinObs, joinBoth, lateResize, resizeFailed,
           initResize>>

rvars == <<configBytes, images, containers, nextId, inv, lastUp>>

pvars == <<portsIn, codeServerIn, validated, parsed, dataA, dataB, hashed,
           imageList, rmResult>>

vars == <<avars, rvars, pvars>>

(***************************************************************************)
(* Bounds of the model.                                                    *)
(***************************************************************************)
MaxWinch == 2
NumConfigs == 2
MaxIds == 3
MaxHashLen == 2
MaxPortChars == 5
MaxImages == 2

(***************************************************************************)
(* Client.Attach                                                           *)
(***************************************************************************)
ErrChCap == 2
SigChCap == 1

CopyTasks == {"out", "in"}
CopyResults == {"nil", "err"}

InitAttach ==
    /\ apc = "idle"
    /\ retval = "none"
    /\ defers = <<>>
    /\ stdinTTY = FALSE
    /\ ctxDone = FALSE
    /\ execs = 0
    /\ termRaw = FALSE
    /\ rawEntered = FALSE
    /\ stream = "none"
    /\ sigNotify = FALSE
    /\ sigCh = 0
    /\ winch = 0
    /\ teardown = <<>>
    /\ errCh = <<>>
    /\ copy = [t \in CopyTasks |-> "off"]
    /\ copyErr = [t \in CopyTasks |-> "nil"]
    /\ hr = "off"
    /\ sg = "off"
    /\ resizes = 0
    /\ joinObs = "none"
    /\ joinBoth = FALSE
    /\ lateResize = FALSE
    /\ resizeFailed = FALSE
    /\ initResize = [done |-> FALSE, stream |-> "none", copying |-> {},
                     sent |-> FALSE]

\* Neither the port functions nor the hash have been applied.
NotValidated == [done |-> FALSE, err |-> ""]

NotRemoved ==
    [done |-> FALSE, before |-> <<>>, attempts |-> <<>>, removed |-> {}, err |-> ""]

\* A configuration without code_server and code_server_port.
NoCodeServer == [CodeServer |-> FALSE, CodeServerPort |-> 0]

NotParsed == [done |-> FALSE, exposedPorts |-> {}, portBindings |-> <<>>, err |-> ""]

NotHashed == [done |-> FALSE, tagA |-> "", tagB |-> "", refA |-> "", refB |-> ""]

InitPure ==
    /\ portsIn = <<>>
    /\ codeServerIn = NoCodeServer
    /\ validated = NotValidated
    /\ parsed = NotParsed
    /\ dataA = <<>>
    /\ dataB = <<>>
    /\ hashed = NotHashed
    /\ imageList = <<>>
    /\ rmResult = NotRemoved

\* A return statement of Attach: the result is fixed, then the deferred calls run.
Return(rv) ==
    /\ retval' = rv
    /\ apc' = "returning"

\* resizeExecTTY: read the window size; on failure return silently, otherwise
\* issue ContainerExecResize and drop its error.
resizeExecTTY(winsizeOK, resizeOK) ==
    /\ resizes' = IF winsizeOK THEN resizes + 1 ELSE resizes
    /\ lateResize' = (lateResize \/ (winsizeOK /\ joinObs # "none"))
    /\ resizeFailed' = (resizeFailed \/ ~winsizeOK \/ ~resizeOK)

\* The caller invokes Attach; the environment fixes whether stdin is a terminal.
AttachCall ==
    /\ apc = "idle"
    /\ \E tty \in BOOLEAN : stdinTTY' = tty
    /\ apc' = "execCreate"
    /\ UNCHANGED <<rvars, pvars>>
    /\ UNCHANGED <<retval, defers, ctxDone, execs, termRaw, rawEntered, stream,
                   sigNotify, sigCh, winch, teardown, errCh, copy, copyErr, hr,
                   sg, resizes, joinObs, joinBoth, lateResize, resizeFailed,
                   initResize>>

\* c.cli.ContainerExecCreate(ctx, containerID, execConfig)
AttachExecCreate ==
    /\ apc = "execCreate"
    /\ \E ok \in BOOLEAN :
         IF ok
         THEN /\ execs' = execs + 1
              /\ apc' = "isTerminal"
              /\ UNCHANGED retval
         ELSE /\ Return("ExecCreateErr")
              /\ UNCHANGED execs
    /\ UNCHANGED <<rvars, pvars>>
    /\ UNCHANGED <<defers, stdinTTY, ctxDone, termRaw, rawEntered, stream,
                   sigNotify, sigCh, winch, teardown, errCh, copy, copyErr, hr,
                   sg, resizes, joinObs, joinBoth, lateResize, resizeFailed,
                   initResize>>

\* if !term.IsTerminal(fd) { return "stdin is not a terminal" }
AttachIsTerminal ==
    /\ apc = "isTerminal"
    /\ IF stdinTTY
       THEN apc' = "setRaw" /\ UNCHANGED retval
       ELSE Return("NotATerminal")
    /\ UNCHANGED <<rvars, pvars>>
    /\ UNCHANGED <<defers, stdinTTY, ctxDone, execs, termRaw, rawEntered, stream,
                   sigNotify, sigCh, winch, teardown, errCh, copy, copyErr, hr,
                   sg, resizes, joinObs, joinBoth, lateResize, resizeFailed,
                   initResize>>

\* A mutant of AttachSetRaw: raw mode is entered but the restore is not deferred.
AttachSetRawNoDefer ==
    /\ apc = "setRaw"
    /\ \E ok \in BOOLEAN :
         IF ok
         THEN /\ termRaw' = TRUE
              /\ rawEntered' = TRUE
              /\ apc' = "execAttach"
              /\ UNCHANGED retval
         ELSE /\ Return("SetRawErr")
              /\ UNCHANGED <<termRaw, rawEntered>>
    /\ UNCHANGED <<rvars, pvars>>
    /\ UNCHANGED <<defers, stdinTTY, ctxDone, execs, stream, sigNotify, sigCh, winch,
                   teardown, errCh, copy, copyErr, hr, sg, resizes, joinObs,
                   joinBoth, lateResize, resizeFailed,
                   initResize>>

\* oldState, err := term.SetRawTerminal(fd); defer term.RestoreTerminal(fd, oldState)
AttachSetRaw ==
    /\ apc = "setRaw"
    /\ \E ok \in BOOLEAN :
         IF ok
         THEN /\ termRaw' = TRUE
              /\ rawEntered' = TRUE
              /\ defers' = Append(defers, "restore")
              /\ apc' = "execAttach"
              /\ UNCHANGED retval
         ELSE /\ Return("SetRawErr")
              /\ UNCHANGED <<termRaw, rawEntered, defers>>
    /\ UNCHANGED <<rvars, pvars>>
    /\ UNCHANGED <<stdinTTY, ctxDone, execs, stream, sigNotify, sigCh, winch,
                   teardown, errCh, copy, copyErr, hr, sg, resizes, joinObs,
                   joinBoth, lateResize, resizeFailed,
                   initResize>>

\* A mutant of AttachExecAttach: the resize goroutine is started before the
\* attachment stream is opened.
AttachExecAttachListensFirst ==
    /\ apc = "execAttach"
    /\ hr' = "waiting"
    /\ \E ok \in BOOLEAN :
         IF ok
         THEN /\ stream' = "open"
              /\ defers' = Append(defers, "close")
              /\ apc' = "goHandleResize"
              /\ UNCHANGED retval
         ELSE /\ Return("AttachErr")
              /\ UNCHANGED <<stream, defers>>
    /\ UNCHANGED <<rvars, pvars>>
    /\ UNCHANGED <<stdinTTY, ctxDone, execs, termRaw, rawEntered, sigNotify, sigCh,
                   winch, teardown, errCh, copy, copyErr, sg, resizes, joinObs,
                   joinBoth, lateResize, resizeFailed, initResize>>

\* attachResp, err := c.cli.ContainerExecAttach(...); defer attachResp.Close()
AttachExecAttach ==
    /\ apc = "execAttach"
    /\ \E ok \in BOOLEAN :
         IF ok
         THEN /\ stream' = "open"
              /\ defers' = Append(defers, "close")
              /\ apc' = "goHandleResize"
              /\ UNCHANGED retval
         ELSE /\ Return("AttachErr")
              /\ UNCHANGED <<stream, defers>>
    /\ UNCHANGED <<rvars, pvars>>
    /\ UNCHANGED <<stdinTTY, ctxDone, execs, termRaw, rawEntered, sigNotify, sigCh,
                   winch, teardown, errCh, copy, copyErr, hr, sg, resizes, joinObs,
                   joinBoth, lateResize, resizeFailed,
                   initResize>>

\* A mutant of AttachGoHandleResize: the initial resize is left to the resize
\* goroutine and Attach goes straight on to the signal subscription.
AttachGoHandleResizeOnly ==
    /\ apc = "goHandleResize"
    /\ hr' = "waiting"
    /\ apc' = "notify"
    /\ UNCHANGED <<rvars, pvars>>
    /\ UNCHANGED <<retval, defers, stdinTTY, ctxDone, execs, termRaw, rawEntered,
                   stream, sigNotify, sigCh, winch, teardown, errCh, copy, copyErr,
                   sg, resizes, joinObs, joinBoth, lateResize, resizeFailed,
                   initResize>>

\* resizeCh := make(chan struct{}); go c.handleResize(ctx, execResp.ID, resizeCh)
AttachGoHandleResize ==
    /\ apc = "goHandleResize"
    /\ hr' = "waiting"
    /\ apc' = "initialResize"
    /\ UNCHANGED <<rvars, pvars>>
    /\ UNCHANGED <<retval, defers, stdinTTY, ctxDone, execs, termRaw, rawEntered,
                   stream, sigNotify, sigCh, winch, teardown, errCh, copy, copyErr,
                   sg, resizes, joinObs, joinBoth, lateResize, resizeFailed,
                   initResize>>

\* A mutant of AttachInitialResize: a failed initial resize makes Attach return
\* an error.
AttachInitialResizeChecked ==
    /\ apc = "initialResize"
    /\ \E winsizeOK, resizeOK \in BOOLEAN :
         /\ resizeExecTTY(winsizeOK, resizeOK)
         /\ initResize' = [done |-> TRUE, stream |-> stream,
                           copying |-> {t \in CopyTasks : copy[t] # "off"},
                           sent |-> winsizeOK]
         /\ IF winsizeOK /\ resizeOK
            THEN apc' = "notify" /\ UNCHANGED retval
            ELSE Return("ResizeErr")
    /\ UNCHANGED <<rvars, pvars>>
    /\ UNCHANGED <<defers, stdinTTY, ctxDone, execs, termRaw, rawEntered,
                   stream, sigNotify, sigCh, winch, teardown, errCh, copy, copyErr,
                   hr, sg, joinObs, joinBoth>>

\* c.resizeExecTTY(ctx, execResp.ID), the initial resize: a synchronous call,
\* Attach goes on when it has returned. initResize records the state it ran in.
AttachInitialResize ==
    /\ apc = "initialResize"
    /\ \E winsizeOK, resizeOK \in BOOLEAN :
         /\ resizeExecTTY(winsizeOK, resizeOK)
         /\ initResize' = [done |-> TRUE, stream |-> stream,
                           copying |-> {t \in CopyTasks : copy[t] # "off"},
                           sent |-> winsizeOK]
    /\ apc' = "notify"
    /\ UNCHANGED <<rvars, pvars>>
    /\ UNCHANGED <<retval, defers, stdinTTY, ctxDone, execs, termRaw, rawEntered,
                   stream, sigNotify, sigCh, winch, teardown, errCh, copy, copyErr,
                   hr, sg, joinObs, joinBoth>>

\* sigCh := make(chan os.Signal, 1); signal.Notify(sigCh, syscall.SIGWINCH)
AttachNotify ==
    /\ apc = "notify"
    /\ sigNotify' = TRUE
    /\ apc' = "goSignal"
    /\ UNCHANGED <<rvars, pvars>>
    /\ UNCHANGED <<retval, defers, stdinTTY, ctxDone, execs, termRaw, rawEntered,
                   stream, sigCh, winch, teardown, errCh, copy, copyErr, hr, sg,
                   resizes, joinObs, joinBoth, lateResize, resizeFailed,
                   initResize>>

\* go func() { for { select { ... } } }(); defer signal.Stop(sigCh)
AttachGoSignal ==
    /\ apc = "goSignal"
    /\ sg' = "waiting"
    /\ defers' = Append(defers, "stop")
    /\ apc' = "goCopyOut"
    /\ UNCHANGED <<rvars, pvars>>
    /\ UNCHANGED <<retval, stdinTTY, ctxDone, execs, termRaw, rawEntered, stream,
                   sigNotify, sigCh, winch, teardown, errCh, copy, copyErr, hr,
                   resizes, joinObs, joinBoth, lateResize, resizeFailed,
                   initResize>>

\* errCh := make(chan error, 2); go func() { io.Copy(os.Stdout, attachResp.Reader) ... }()
AttachGoCopyOut ==
    /\ apc = "goCopyOut"
    /\ copy' = [copy EXCEPT !["out"] = "copying"]
    /\ apc' = "goCopyIn"
    /\ UNCHANGED <<rvars, pvars>>
    /\ UNCHANGED <<retval, defers, stdinTTY, ctxDone, execs, termRaw, rawEntered,
                   stream, sigNotify, sigCh, winch, teardown, errCh, copyErr, hr,
                   sg, resizes, joinObs, joinBoth, lateResize, resizeFailed,
                   initResize>>

\* go func() { io.Copy(attachResp.Conn, os.Stdin) ... }()
AttachGoCopyIn ==
    /\ apc = "goCopyIn"
    /\ copy' = [copy EXCEPT !["in"] = "copying"]
    /\ apc' = "select"
    /\ UNCHANGED <<rvars, pvars>>
    /\ UNCHANGED <<retval, defers, stdinTTY, ctxDone, execs, termRaw, rawEntered,
                   stream, sigNotify, sigCh, winch, teardown, errCh, copyErr, hr,
                   sg, resizes, joinObs, joinBoth, lateResize, resizeFailed,
                   initResize>>

\* A mutant of AttachSelect: the result of a copy task is taken only when both
\* copy tasks have delivered theirs.
AttachSelectWaitsForBoth ==
    /\ apc = "select"
    /\ joinBoth' = (ctxDone /\ errCh # <<>> /\ Head(errCh) = "nil")
    /\ \/ /\ Len(errCh) = ErrChCap
          /\ errCh' = Tail(errCh)
          /\ joinObs' = "copy"
          /\ IF Head(errCh) # "nil" /\ Head(errCh) # "EOF"
             THEN Return("IOError")
             ELSE apc' = "select2" /\ UNCHANGED retval
       \/ /\ ctxDone
          /\ joinObs' = "cancel"
          /\ Return("Canceled")
          /\ UNCHANGED errCh
    /\ UNCHANGED <<rvars, pvars>>
    /\ UNCHANGED <<defers, stdinTTY, ctxDone, execs, termRaw, rawEntered, stream,
                   sigNotify, sigCh, winch, teardown, copy, copyErr, hr, sg,
                   resizes, lateResize, resizeFailed,
                   initResize>>

\* select { case err := <-errCh: ...  case <-ctx.Done(): return ctx.Err() }
\* When both cases are ready the Go runtime picks one of them at random.
AttachSelect ==
    /\ apc = "select"
    /\ joinBoth' = (ctxDone /\ errCh # <<>> /\ Head(errCh) = "nil")
    /\ \/ /\ errCh # <<>>
          /\ errCh' = Tail(errCh)
          /\ joinObs' = "copy"
          /\ IF Head(errCh) # "nil" /\ Head(errCh) # "EOF"
             THEN Return("IOError")
             ELSE apc' = "select2" /\ UNCHANGED retval
       \/ /\ ctxDone
          /\ joinObs' = "cancel"
          /\ Return("Canceled")
          /\ UNCHANGED errCh
    /\ UNCHANGED <<rvars, pvars>>
    /\ UNCHANGED <<defers, stdinTTY, ctxDone, execs, termRaw, rawEntered, stream,
                   sigNotify, sigCh, winch, teardown, copy, copyErr, hr, sg,
                   resizes, lateResize, resizeFailed,
                   initResize>>

\* A mutant of AttachSelect2: the result of the other copy task, when it is
\* there, is looked at and a failure is returned.
AttachSelect2ChecksOther ==
    /\ apc = "select2"
    /\ errCh' = IF errCh # <<>> THEN Tail(errCh) ELSE errCh
    /\ IF errCh # <<>> /\ Head(errCh) = "err"
       THEN Return("IOError")
       ELSE Return("nil")
    /\ UNCHANGED <<rvars, pvars>>
    /\ UNCHANGED <<defers, stdinTTY, ctxDone, execs, termRaw, rawEntered, stream,
                   sigNotify, sigCh, winch, teardown, copy, copyErr, hr, sg,
                   resizes, joinObs, joinBoth, lateResize, resizeFailed,
                   initResize>>

\* select { case <-errCh: default: }; return nil
AttachSelect2 ==
    /\ apc = "select2"
    /\ errCh' = IF errCh # <<>> THEN Tail(errCh) ELSE errCh
    /\ Return("nil")
    /\ UNCHANGED <<rvars, pvars>>
    /\ UNCHANGED <<defers, stdinTTY, ctxDone, execs, termRaw, rawEntered, stream,
                   sigNotify, sigCh, winch, teardown, copy, copyErr, hr, sg,
                   resizes, joinObs, joinBoth, lateResize, resizeFailed,
                   initResize>>

\* The effect of one deferred call.
RunDeferredCall(d) ==
    /\ sigNotify' = IF d = "stop" THEN FALSE ELSE sigNotify
    /\ stream' = IF d = "close" THEN "closed" ELSE stream
    /\ termRaw' = IF d = "restore" THEN FALSE ELSE termRaw
    /\ teardown' = Append(teardown, d)

\* A mutant of AttachRunDeferred: the deferred calls run in the order they were
\* registered instead of last-in first-out.
AttachRunDeferredFifo ==
    /\ apc = "returning"
    /\ defers # <<>>
    /\ RunDeferredCall(Head(defers))
    /\ defers' = Tail(defers)
    /\ UNCHANGED <<rvars, pvars>>
    /\ UNCHANGED <<apc, retval, stdinTTY, ctxDone, execs, rawEntered, sigCh, winch,
                   errCh, copy, copyErr, hr, sg, resizes, joinObs, joinBoth,
                   lateResize, resizeFailed,
                   initResize>>

\* On return the deferred calls run last-in first-out.
AttachRunDeferred ==
    /\ apc = "returning"
    /\ defers # <<>>
    /\ RunDeferredCall(defers[Len(defers)])
    /\ defers' = SubSeq(defers, 1, Len(defers) - 1)
    /\ UNCHANGED <<rvars, pvars>>
    /\ UNCHANGED <<apc, retval, stdinTTY, ctxDone, execs, rawEntered, sigCh, winch,
                   errCh, copy, copyErr, hr, sg, resizes, joinObs, joinBoth,
                   lateResize, resizeFailed,
                   initResize>>

\* A mutant of AttachReturned: Attach hands over its result while deferred calls
\* are still outstanding.
AttachReturnedEarly ==
    /\ apc = "returning"
    /\ apc' = "returned"
    /\ UNCHANGED <<rvars, pvars>>
    /\ UNCHANGED <<retval, defers, stdinTTY, ctxDone, execs, termRaw, rawEntered,
                   stream, sigNotify, sigCh, winch, teardown, errCh, copy, copyErr,
                   hr, sg, resizes, joinObs, joinBoth, lateResize, resizeFailed,
                   initResize>>

\* All deferred calls have run: Attach hands its result to the caller.
AttachReturned ==
    /\ apc = "returning"
    /\ defers = <<>>
    /\ apc' = "returned"
    /\ UNCHANGED <<rvars, pvars>>
    /\ UNCHANGED <<retval, defers, stdinTTY, ctxDone, execs, termRaw, rawEntered,
                   stream, sigNotify, sigCh, winch, teardown, errCh, copy, copyErr,
                   hr, sg, resizes, joinObs, joinBoth, lateResize, resizeFailed,
                   initResize>>

\* io.Copy of copy task t returns: nil at end of stream, an error otherwise.
CopyEnd(t) ==
    /\ copy[t] = "copying"
    /\ \E e \in CopyResults : copyErr' = [copyErr EXCEPT ![t] = e]
    /\ copy' = [copy EXCEPT ![t] = "sending"]
    /\ UNCHANGED <<rvars, pvars>>
    /\ UNCHANGED <<apc, retval, defers, stdinTTY, ctxDone, execs, termRaw,
                   rawEntered, stream, sigNotify, sigCh, winch, teardown, errCh,
                   hr, sg, resizes, joinObs, joinBoth, lateResize, resizeFailed,
                   initResize>>

\* A mutant of CopySend: errCh is unbuffered, a result is handed over only while
\* Attach waits in a select on errCh.
CopySendUnbuffered(t) ==
    /\ copy[t] = "sending"
    /\ apc \in {"select", "select2"}
    /\ errCh = <<>>
    /\ errCh' = Append(errCh, copyErr[t])
    /\ copy' = [copy EXCEPT ![t] = "done"]
    /\ UNCHANGED <<rvars, pvars>>
    /\ UNCHANGED <<apc, retval, defers, stdinTTY, ctxDone, execs, termRaw,
                   rawEntered, stream, sigNotify, sigCh, winch, teardown, copyErr,
                   hr, sg, resizes, joinObs, joinBoth, lateResize, resizeFailed,
                   initResize>>

\* errCh <- err
CopySend(t) ==
    /\ copy[t] = "sending"
    /\ Len(errCh) < ErrChCap
    /\ errCh' = Append(errCh, copyErr[t])
    /\ copy' = [copy EXCEPT ![t] = "done"]
    /\ UNCHANGED <<rvars, pvars>>
    /\ UNCHANGED <<apc, retval, defers, stdinTTY, ctxDone, execs, termRaw,
                   rawEntered, stream, sigNotify, sigCh, winch, teardown, copyErr,
                   hr, sg, resizes, joinObs, joinBoth, lateResize, resizeFailed,
                   initResize>>

\* handleResize: select { case <-resizeCh: ...  case <-ctx.Done(): return }.
\* Nothing ever sends on resizeCh, so only the second case can be taken.
HandleResizeDone ==
    /\ hr = "waiting"
    /\ ctxDone
    /\ hr' = "returned"
    /\ UNCHANGED <<rvars, pvars>>
    /\ UNCHANGED <<apc, retval, defers, stdinTTY, ctxDone, execs, termRaw,
                   rawEntered, stream, sigNotify, sigCh, winch, teardown, errCh,
                   copy, copyErr, sg, resizes, joinObs, joinBoth, lateResize, resizeFailed,
                   initResize>>

\* The SIGWINCH goroutine: case <-sigCh: c.resizeExecTTY(ctx, execResp.ID)
SignalRecv ==
    /\ sg = "waiting"
    /\ sigCh > 0
    /\ sigCh' = sigCh - 1
    /\ \E winsizeOK, resizeOK \in BOOLEAN : resizeExecTTY(winsizeOK, resizeOK)
    /\ UNCHANGED <<rvars, pvars>>
    /\ UNCHANGED <<apc, retval, defers, stdinTTY, ctxDone, execs, termRaw,
                   rawEntered, stream, sigNotify, winch, teardown, errCh, copy,
                   copyErr, hr, sg, joinObs, joinBoth, initResize>>

\* The SIGWINCH goroutine: case <-ctx.Done(): return
SignalDone ==
    /\ sg = "waiting"
    /\ ctxDone
    /\ sg' = "returned"
    /\ UNCHANGED <<rvars, pvars>>
    /\ UNCHANGED <<apc, retval, defers, stdinTTY, ctxDone, execs, termRaw,
                   rawEntered, stream, sigNotify, sigCh, winch, teardown, errCh,
                   copy, copyErr, hr, resizes, joinObs, joinBoth, lateResize, resizeFailed,
                   initResize>>

\* The OS raises SIGWINCH; the signal package delivers it to sigCh without
\* blocking, dropping it when the buffer is full.
Sigwinch ==
    /\ sigNotify
    /\ winch < MaxWinch
    /\ winch' = winch + 1
    /\ sigCh' = IF sigCh < SigChCap THEN sigCh + 1 ELSE sigCh
    /\ UNCHANGED <<rvars, pvars>>
    /\ UNCHANGED <<apc, retval, defers, stdinTTY, ctxDone, execs, termRaw,
                   rawEntered, stream, sigNotify, teardown, errCh, copy, copyErr,
                   hr, sg, resizes, joinObs, joinBoth, lateResize, resizeFailed,
                   initResize>>

\* The caller cancels ctx.
Cancel ==
    /\ apc # "idle"
    /\ ~ctxDone
    /\ ctxDone' = TRUE
    /\ UNCHANGED <<rvars, pvars>>
    /\ UNCHANGED <<apc, retval, defers, stdinTTY, execs, termRaw, rawEntered,
                   stream, sigNotify, sigCh, winch, teardown, errCh, copy, copyErr,
                   hr, sg, resizes, joinObs, joinBoth, lateResize, resizeFailed,
                   initResize>>

(***************************************************************************)
(* internal/project: names and the image reference                         *)
(***************************************************************************)
HashLength == 12

\* The working directory of the invocations.
Cwd == "/home/dev/app"

\* The default value of the host's variable TOKEN.
HostEnv == "a"

\* The configuration contents the file can hold: the empty file and the
\* one-byte files.
Configs == {<<>>} \cup {<<b>> : b \in 1..NumConfigs}

RECURSIVE LastSlash(_, _)
\* The index of the last "/" among the first i characters of path, 0 if none.
LastSlash(path, i) ==
    IF i = 0 THEN 0
    ELSE IF SubSeq(path, i, i) = "/" THEN i
    ELSE LastSlash(path, i - 1)

\* GetProjectName: filepath.Base(dir), for a clean absolute path.
GetProjectName(dir) ==
    SubSeq(dir, LastSlash(dir, Len(dir)) + 1, Len(dir))

HexDigits == "0123456789abcdef"

\* crypto/sha256 (FIPS 180-4). A 32-bit word is the pair <<hi, lo>> of its two
\* 16-bit halves, so that no intermediate value leaves the range of the integers
\* of the model checker.
Half == 65536

Pow2 == <<1, 2, 4, 8, 16, 32, 64, 128, 256, 512, 1024, 2048, 4096, 8192, 16384,
          32768, 65536>>

RECURSIVE XorBits(_, _, _)
\* The bitwise exclusive or of the n low bits of x and y.
XorBits(x, y, n) ==
    IF n = 0 THEN 0
    ELSE ((x + y) % 2) + 2 * XorBits(x \div 2, y \div 2, n - 1)

RECURSIVE AndBits(_, _, _)
\* The bitwise and of the n low bits of x and y.
AndBits(x, y, n) ==
    IF n = 0 THEN 0
    ELSE ((x % 2) * (y % 2)) + 2 * AndBits(x \div 2, y \div 2, n - 1)

\* The exclusive or and the and of two 4-bit values x and y, at index 16x + y + 1.
NibbleXor == SubSeq([k \in 1..256 |-> XorBits((k - 1) \div 16, (k - 1) % 16, 4)], 1, 256)

NibbleAnd == SubSeq([k \in 1..256 |-> AndBits((k - 1) \div 16, (k - 1) % 16, 4)], 1, 256)

\* A bitwise operation on two 16-bit values, four bits at a time.
Bitwise16(table, x, y) ==
    table[16 * (x % 16) + (y % 16) + 1]
    + 16 * table[16 * ((x \div 16) % 16) + ((y \div 16) % 16) + 1]
    + 256 * table[16 * ((x \div 256) % 16) + ((y \div 256) % 16) + 1]
    + 4096 * table[16 * (x \div 4096) + (y \div 4096) + 1]

Xor32(a, b) == <<Bitwise16(NibbleXor, a[1], b[1]), Bitwise16(NibbleXor, a[2], b[2])>>

And32(a, b) == <<Bitwise16(NibbleAnd, a[1], b[1]), Bitwise16(NibbleAnd, a[2], b[2])>>

Not32(a) == <<Half - 1 - a[1], Half - 1 - a[2]>>

\* The sum of the words of ws modulo 2^32 (at most five words).
Add32(ws) ==
    LET RECURSIVE SumOf(_, _)
        SumOf(k, i) == IF i = 0 THEN 0 ELSE ws[i][k] + SumOf(k, i - 1)
        lo == SumOf(2, Len(ws))
        hi == SumOf(1, Len(ws)) + (lo \div Half)
    IN  <<hi % Half, lo % Half>>

\* a rotated right by n bits, 0 < n < 32.
RotR(a, n) ==
    LET w == IF n >= 16 THEN <<a[2], a[1]>> ELSE a
        k == IF n >= 16 THEN n - 16 ELSE n
    IN  IF k = 0 THEN w
        ELSE <<(w[1] \div Pow2[k + 1]) + (w[2] % Pow2[k + 1]) * Pow2[17 - k],
               (w[2] \div Pow2[k + 1]) + (w[1] % Pow2[k + 1]) * Pow2[17 - k]>>

\* a shifted right by n bits, 0 < n < 16.
ShR(a, n) ==
    <<a[1] \div Pow2[n + 1],
      (a[2] \div Pow2[n + 1]) + (a[1] % Pow2[n + 1]) * Pow2[17 - n]>>

BigSigma0(a) == Xor32(Xor32(RotR(a, 2), RotR(a, 13)), RotR(a, 22))

BigSigma1(e) == Xor32(Xor32(RotR(e, 6), RotR(e, 11)), RotR(e, 25))

SmallSigma0(x) == Xor32(Xor32(RotR(x, 7), RotR(x, 18)), ShR(x, 3))

SmallSigma1(x) == Xor32(Xor32(RotR(x, 17), RotR(x, 19)), ShR(x, 10))

Ch(e, f, g) == Xor32(And32(e, f), And32(Not32(e), g))

Maj(a, b, c) == Xor32(Xor32(And32(a, b), And32(a, c)), And32(b, c))

Sha256K ==
    <<<<17034, 12184>>, <<28983, 17553>>, <<46528, 64463>>, <<59829, 56229>>,
      <<14678, 49755>>, <<23025, 4593>>, <<37439, 33444>>, <<43804, 24277>>,
      <<55303, 43672>>, <<4739, 23297>>, <<9265, 34238>>, <<21772, 32195>>,
      <<29374, 23924>>, <<32990, 45566>>, <<39900, 1703>>, <<49563, 61812>>,
      <<58523, 27073>>, <<61374, 18310>>, <<4033, 40390>>, <<9228, 41420>>,
      <<11753, 11375>>, <<19060, 33962>>, <<23728, 43484>>, <<30457, 35034>>,
      <<38974, 20818>>, <<43057, 50797>>, <<45059, 10184>>, <<48985, 32711>>,
      <<50912, 3059>>, <<54695, 37191>>, <<1738, 25425>>, <<5161, 10599>>,
      <<10167, 2693>>, <<11803, 8504>>, <<19756, 28156>>, <<21304, 3347>>,
      <<25866, 29524>>, <<30314, 2747>>, <<33218, 51502>>, <<37490, 11397>>,
      <<41663, 59553>>, <<43034, 26187>>, <<49739, 35696>>, <<51052, 20899>>,
      <<53650, 59417>>, <<54937, 1572>>, <<62478, 13701>>, <<4202, 41072>>,
      <<6564, 49430>>, <<7735, 27656>>, <<10056, 30540>>, <<13488, 48309>>,
      <<14620, 3251>>, <<20184, 43594>>, <<23452, 51791>>, <<26670, 28659>>,
      <<29839, 33518>>, <<30885, 25455>>, <<33992, 30740>>, <<36039, 520>>,
      <<37054, 65530>>, <<42064, 27883>>, <<48889, 41975>>, <<50801, 30962>>>>

Sha256Init ==
    <<<<27145, 58983>>, <<47975, 44677>>, <<15470, 62322>>, <<42319, 62778>>,
      <<20750, 21119>>, <<39685, 26764>>, <<8067, 55723>>, <<23520, 52505>>>>

RECURSIVE Zeros(_)
Zeros(n) == IF n = 0 THEN <<>> ELSE <<0>> \o Zeros(n - 1)

\* The padded message: the data, the byte 0x80, zero bytes up to 56 modulo 64,
\* and the length of the data in bits as a 64-bit big-endian number.
Sha256Pad(data) ==
    LET bits == 8 * Len(data)
        fill == (119 - (Len(data) % 64)) % 64
    IN  data \o <<128>> \o Zeros(fill) \o Zeros(4)
          \o <<(bits \div 16777216) % 256, (bits \div 65536) % 256,
               (bits \div 256) % 256, bits % 256>>

RECURSIVE Sha256Schedule(_)
\* The message schedule: the 16 words of the block extended to 64 words.
Sha256Schedule(w) ==
    IF Len(w) = 64 THEN w
    ELSE LET t == Len(w) + 1
         IN  Sha256Schedule(Append(w,
                 Add32(<<SmallSigma1(w[t - 2]), w[t - 7],
                         SmallSigma0(w[t - 15]), w[t - 16]>>)))

RECURSIVE Sha256Rounds(_, _, _)
\* Rounds t..64 of the compression function on the working variables
\* s = <<a, b, c, d, e, f, g, h>>.
Sha256Rounds(s, w, t) ==
    IF t > 64 \/ Len(s) # 8 THEN s
    ELSE LET t1 == Add32(<<s[8], BigSigma1(s[5]), Ch(s[5], s[6], s[7]),
                           Sha256K[t], w[t]>>)
             t2 == Add32(<<BigSigma0(s[1]), Maj(s[1], s[2], s[3])>>)
         IN  Sha256Rounds(<<Add32(<<t1, t2>>), s[1], s[2], s[3],
                            Add32(<<s[4], t1>>), s[5], s[6], s[7]>>, w, t + 1)

\* One block: the 64 bytes as 16 big-endian words, the rounds, and the sum of
\* the result with the state before.
Sha256Block(h, block) ==
    LET w == Sha256Schedule(SubSeq([i \in 1..16 |->
                 <<block[4 * i - 3] * 256 + block[4 * i - 2],
                   block[4 * i - 1] * 256 + block[4 * i]>>], 1, 16))
        s == Sha256Rounds(h, w, 1)
    IN  <<Add32(<<h[1], s[1]>>), Add32(<<h[2], s[2]>>), Add32(<<h[3], s[3]>>),
          Add32(<<h[4], s[4]>>), Add32(<<h[5], s[5]>>), Add32(<<h[6], s[6]>>),
          Add32(<<h[7], s[7]>>), Add32(<<h[8], s[8]>>)>>

RECURSIVE Sha256Blocks(_, _)
Sha256Blocks(h, msg) ==
    IF msg = <<>> THEN h
    ELSE Sha256Blocks(Sha256Block(h, SubSeq(msg, 1, 64)),
                      SubSeq(msg, 65, Len(msg)))

RECURSIVE WordBytes(_)
\* The words as bytes, big-endian.
WordBytes(ws) ==
    IF ws = <<>> THEN <<>>
    ELSE <<Head(ws)[1] \div 256, Head(ws)[1] % 256,
           Head(ws)[2] \div 256, Head(ws)[2] % 256>> \o WordBytes(Tail(ws))

\* The 32 bytes of the SHA-256 digest of data.
Sha256Digest(data) == WordBytes(Sha256Blocks(Sha256Init, Sha256Pad(data)))

\* The byte strings the hash is applied to besides the configurations: all
\* strings of at most MaxHashLen bytes over HashBytes.
HashBytes == {0, 1, 255}

HashInputs == UNION {[1..n -> HashBytes] : n \in 0..MaxHashLen}

\* sha256.Sum256(data): the 32 bytes of the digest.
Sum256(data) == Sha256Digest(data)

RECURSIVE EncodeToString(_)
\* hex.EncodeToString: two lower-case hex digits per byte.
EncodeToString(bytes) ==
    IF bytes = <<>> THEN ""
    ELSE SubSeq(HexDigits, (Head(bytes) \div 16) + 1, (Head(bytes) \div 16) + 1)
         \o SubSeq(HexDigits, (Head(bytes) % 16) + 1, (Head(bytes) % 16) + 1)
         \o EncodeToString(Tail(bytes))

RECURSIVE FullHashTable(_)
\* The hex digests of the byte strings of S, as a function on S.
FullHashTable(S) ==
    IF S = {} THEN <<>>
    ELSE LET d == CHOOSE x \in S : TRUE
         IN  (d :> EncodeToString(Sum256(d))) @@ FullHashTable(S \ {d})

\* The hex digests of the byte strings of the model, computed once.
FullHashes == FullHashTable(Configs \cup HashInputs)

\* fullHash := hex.EncodeToString(hash[:]) of hash := sha256.Sum256(data).
FullHash(data) ==
    IF data \in DOMAIN FullHashes THEN FullHashes[data]
    ELSE EncodeToString(Sum256(data))

\* A mutant of ComputeHash: the digest is cut to its first character.
ComputeHashOneChar(data) ==
    SubSeq(FullHash(data), 1, 1)

\* ComputeHash: the first HashLength characters of the hex digest.
ComputeHash(data) ==
    SubSeq(FullHash(data), 1, HashLength)

\* The configuration file of the working directory: filepath.Join(cwd, ".rig.yml").
ConfigPath(dir) == dir \o "/" \o ".rig.yml"

\* os.ReadFile(configPath): the only file of the model is the configuration
\* file, which config.Load has read before.
ReadFile(path) == configBytes

\* A mutant of ComputeConfigHash: the error of ReadFile is dropped and the hash
\* is taken of the empty content it returned.
ComputeConfigHashOfNothing(configPath) == ComputeHash(<<>>)

\* ComputeConfigHash: ComputeHash of the content of the file.
ComputeConfigHash(configPath) == ComputeHash(ReadFile(configPath))

ImageRef(projectName, configHash) == "devbox-" \o projectName \o ":" \o configHash

ImageName(projectName) == "devbox-" \o projectName

ContainerName(projectName) == "devbox-" \o projectName

(***************************************************************************)
(* internal/docker: the client over the container engine                   *)
(***************************************************************************)
NoContainer == 0      \* the empty container id ""

NoUp == <<0>>

\* The container with the given id, for an id the engine knows.
ContainerOf(id) == CHOOSE c \in containers : c.id = id

Exists(id) == \E c \in containers : c.id = id

\* The containers that carry the container name.
Named(name) == {c \in containers : ("/" \o name) \in c.names}

\* A mutant of ImageExists: every inspection is taken for not-found.
ImageExistsNever(imageRef) == FALSE

\* ImageExists: ImageInspectWithRaw finds the reference or reports not-found.
ImageExists(imageRef) == imageRef \in images

\* A mutant of FindContainer: the name is searched without the leading "/".
FindContainerNoSlash(name) ==
    LET hits == {c.id : c \in {d \in containers : name \in d.names}}
    IN  IF hits = {} THEN {NoContainer} ELSE hits

\* A mutant of FindContainer: a name that starts with "/" + name is taken for
\* the name.
FindContainerByPrefix(name) ==
    LET hits == {c.id : c \in {d \in containers :
                                 \E n \in d.names :
                                    /\ Len(n) > Len(name)
                                    /\ SubSeq(n, 1, Len(name) + 1) = "/" \o name}}
    IN  IF hits = {} THEN {NoContainer} ELSE hits

\* FindContainer: the ids ContainerList(All) can yield first for a container
\* one of whose names is "/" + name; the empty id when there is none.
FindContainer(name) ==
    LET hits == {c.id : c \in {d \in containers : ("/" \o name) \in d.names}}
    IN  IF hits = {} THEN {NoContainer} ELSE hits

\* A mutant of CreateContainer: the container name is passed as the image.
CreateContainerNameAsImage(cfg) ==
    containers \cup {[id |-> nextId, names |-> {"/" \o cfg.ContainerName},
                      image |-> cfg.ContainerName, workDir |-> cfg.WorkDir,
                      env |-> cfg.Env, command |-> cfg.Command,
                      running |-> FALSE]}

\* CreateContainer: ContainerCreate with cfg.ImageRef and cfg.ContainerName; the
\* engine answers with a fresh id. The engine's own refusal of a name in use is
\* left out, so that nothing but the callers' lookup keeps names unique. The
\* container keeps the image, the command, the environment and the bind of
\* cfg.WorkDir to /workspace it was created with.
CreateContainer(cfg) ==
    containers \cup {[id |-> nextId, names |-> {"/" \o cfg.ContainerName},
                      image |-> cfg.ImageRef, workDir |-> cfg.WorkDir,
                      env |-> cfg.Env, command |-> cfg.Command,
                      running |-> FALSE]}

StartContainer(id) ==
    {IF c.id = id THEN [c EXCEPT !.running = TRUE] ELSE c : c \in containers}

StopContainer(id) ==
    {IF c.id = id THEN [c EXCEPT !.running = FALSE] ELSE c : c \in containers}

\* RemoveContainer: ContainerRemove; the engine refuses a running container
\* unless force is set.
CanRemove(id, force) == Exists(id) /\ (force \/ ~ContainerOf(id).running)

RemoveContainer(id, force) == {c \in containers : c.id # id}

\* A mutant of IsContainerRunning: every container is reported running.
IsContainerRunningAlways(id) == TRUE

\* IsContainerRunning: info.State.Running
IsContainerRunning(id) == ContainerOf(id).running

\* GetContainerImage: info.Config.Image, the reference given at creation.
GetContainerImage(id) == ContainerOf(id).image

\* BuildImage: a build whose progress stream ends without an error message
\* leaves the image tagged imageRef.
BuildImage(imageRef) == images \cup {imageRef}

\* The errors BuildImage returns: ImageBuild could not start the build, or
\* streamBuildOutput met a message it could not decode or a message carrying an
\* error. (The in-memory tar archive of the Dockerfile cannot fail to be
\* written.) None of them leaves an image tagged imageRef.
BuildImageErrors ==
    {"starting image build",
     "streaming build output: decoding build message",
     "streaming build output: build error"}

HasPrefix(s, prefix) ==
    Len(s) >= Len(prefix) /\ SubSeq(s, 1, Len(prefix)) = prefix

\* RemoveImagesByName: the images whose removal is attempted.
MatchingImages(imageName) ==
    {t \in images : HasPrefix(t, imageName \o ":") \/ t = imageName}

(***************************************************************************)
(* Port specs: Config.Validate (internal/config) and parsePortMappings      *)
(* (internal/docker)                                                        *)
(***************************************************************************)
Digits == {"0", "1", "2", "3", "4", "5", "6", "7", "8", "9"}

\* strconv.Atoi(s) returns no error: an optional sign followed by at least one
\* decimal digit. (The range error needs more digits than a spec of the model
\* has.)
AtoiOK(s) ==
    LET body == IF Len(s) > 0 /\ SubSeq(s, 1, 1) \in {"+", "-"}
                THEN SubSeq(s, 2, Len(s)) ELSE s
    IN  /\ Len(body) > 0
        /\ \A i \in 1..Len(body) : SubSeq(body, i, i) \in Digits

RECURSIVE Index(_, _, _)
\* The position of the first sep in s at or after position i, 0 if there is none.
Index(s, sep, i) ==
    IF i > Len(s) THEN 0
    ELSE IF SubSeq(s, i, i) = sep THEN i
    ELSE Index(s, sep, i + 1)

RECURSIVE Split(_, _)
\* strings.Split(s, sep) for a separator of one character.
Split(s, sep) ==
    LET i == Index(s, sep, 1)
    IN  IF i = 0 THEN <<s>>
        ELSE <<SubSeq(s, 1, i - 1)>> \o Split(SubSeq(s, i + 1, Len(s)), sep)

\* validatePortSpec: the error it returns, "" for nil.
validatePortSpec(spec) ==
    LET parts == Split(spec, ":")
    IN  CASE Len(parts) = 1 ->
               IF ~AtoiOK(parts[1])
               THEN "invalid port number: " \o parts[1]
               ELSE ""
          [] Len(parts) = 2 ->
               IF ~AtoiOK(parts[1])
               THEN "invalid host port: " \o parts[1]
               ELSE IF ~AtoiOK(parts[2])
               THEN "invalid container port: " \o parts[2]
               ELSE ""
          [] OTHER -> "invalid format, expected 'port' or 'host:container'"

RECURSIVE ValidatePorts(_, _)
\* Config.Validate, the loop over c.Ports from position i on: the first spec
\* that validatePortSpec refuses ends it.
ValidatePorts(ports, i) ==
    IF i > Len(ports) THEN ""
    ELSE IF validatePortSpec(ports[i]) # ""
    THEN "invalid port " \o ports[i] \o ": " \o validatePortSpec(ports[i])
    ELSE ValidatePorts(ports, i + 1)

\* What parsePortMappings returns with an error: nil, nil, err.
PortsRejected(err) == [exposedPorts |-> {}, portBindings |-> <<>>, err |-> err]

RECURSIVE parsePortMappingsFrom(_, _, _, _)
\* The loop of parsePortMappings from position i on, with the port set and the
\* port map built so far. A container port that comes again replaces the
\* binding entered before.
parsePortMappingsFrom(ports, i, exposedPorts, portBindings) ==
    IF i > Len(ports)
    THEN [exposedPorts |-> exposedPorts, portBindings |-> portBindings, err |-> ""]
    ELSE LET spec == ports[i]
             parts == Split(spec, ":")
             hostPort == parts[1]
             containerPort == IF Len(parts) = 1 THEN parts[1] ELSE parts[2]
             natPort == containerPort \o "/tcp"
         IN  IF Len(parts) > 2
             THEN PortsRejected("invalid port spec: " \o spec)
             ELSE IF ~AtoiOK(hostPort)
             THEN PortsRejected("invalid host port: " \o hostPort)
             ELSE IF ~AtoiOK(containerPort)
             THEN PortsRejected("invalid container port: " \o containerPort)
             ELSE parsePortMappingsFrom(ports, i + 1,
                      exposedPorts \cup {natPort},
                      (natPort :> <<[HostIP |-> "0.0.0.0", HostPort |-> hostPort]>>)
                          @@ portBindings)

RECURSIVE parsePortMappingsLenientFrom(_, _, _, _)
parsePortMappingsLenientFrom(ports, i, exposedPorts, portBindings) ==
    IF i > Len(ports)
    THEN [exposedPorts |-> exposedPorts, portBindings |-> portBindings, err |-> ""]
    ELSE LET spec == ports[i]
             parts == Split(spec, ":")
             hostPort == parts[1]
             containerPort == IF Len(parts) = 1 THEN parts[1] ELSE parts[2]
             natPort == containerPort \o "/tcp"
         IN  IF ~AtoiOK(hostPort)
             THEN PortsRejected("invalid host port: " \o hostPort)
             ELSE IF ~AtoiOK(containerPort)
             THEN PortsRejected("invalid container port: " \o containerPort)
             ELSE parsePortMappingsLenientFrom(ports, i + 1,
                      exposedPorts \cup {natPort},
                      (natPort :> <<[HostIP |-> "0.0.0.0", HostPort |-> hostPort]>>)
                          @@ portBindings)

\* A mutant of parsePortMappings: the default case of the switch is missing, a
\* spec of three or more parts is read as its first two.
parsePortMappingsLenient(ports) == parsePortMappingsLenientFrom(ports, 1, {}, <<>>)

\* parsePortMappings(ports): the exposed ports, the port bindings and the error.
parsePortMappings(ports) == parsePortMappingsFrom(ports, 1, {}, <<>>)

\* strings.HasSuffix
HasSuffix(s, suffix) ==
    Len(s) >= Len(suffix) /\ SubSeq(s, Len(s) - Len(suffix) + 1, Len(s)) = suffix

RECURSIVE FormatUint(_)
\* The decimal digits of a natural number.
FormatUint(n) ==
    IF n < 10 THEN SubSeq("0123456789", n + 1, n + 1)
    ELSE FormatUint(n \div 10) \o SubSeq("0123456789", (n % 10) + 1, (n % 10) + 1)

\* fmt.Sprintf("%d", n)
Sprintf(n) == IF n < 0 THEN "-" \o FormatUint(0 - n) ELSE FormatUint(n)

\* GetCodeServerPort: the code-server port, 8080 when none is set.
GetCodeServerPort(c) == IF c.CodeServerPort = 0 THEN 8080 ELSE c.CodeServerPort

\* A mutant of GetAllPorts: the code-server port is appended with its protocol.
GetAllPortsWithProtocol(ports, c) ==
    IF c.CodeServer
    THEN LET csPort == Sprintf(GetCodeServerPort(c))
             found == \E i \in 1..Len(ports) :
                         \/ ports[i] = csPort
                         \/ HasPrefix(ports[i], csPort \o ":")
                         \/ HasSuffix(ports[i], ":" \o csPort)
         IN  IF found THEN ports ELSE Append(ports, csPort \o "/tcp")
    ELSE ports

\* GetAllPorts: the configured ports, and the code-server port when code-server
\* is enabled and no spec is, starts with or ends with that port.
GetAllPorts(ports, c) ==
    IF c.CodeServer
    THEN LET csPort == Sprintf(GetCodeServerPort(c))
             found == \E i \in 1..Len(ports) :
                         \/ ports[i] = csPort
                         \/ HasPrefix(ports[i], csPort \o ":")
                         \/ HasSuffix(ports[i], ":" \o csPort)
         IN  IF found THEN ports ELSE Append(ports, csPort)
    ELSE ports

\* The code-server ports of the model; 0 is a configuration that sets none.
CodeServerPorts == {0, 1, 12, -2}

\* The code-server settings of the model.
CodeServerInputs ==
    {[CodeServer |-> e, CodeServerPort |-> n] : e \in BOOLEAN, n \in CodeServerPorts}

\* The characters of the port specs of the model.
PortChars == {"1", "2", ":", "x", "-"}

RECURSIVE Strings(_)
\* The strings of at most n characters.
Strings(n) ==
    IF n = 0 THEN {""}
    ELSE LET shorter == Strings(n - 1)
         IN  shorter \cup {s \o c : s \in shorter, c \in PortChars}

RECURSIVE PortLists(_)
\* The lists of port specs whose characters, with one separator between two
\* specs, number at most n.
PortLists(n) ==
    IF n < 0 THEN {<<>>}
    ELSE {<<>>} \cup
         UNION {{<<s>> \o l : l \in PortLists(n - Len(s) - 1)} : s \in Strings(n)}

\* The lists of port specs of the model.
PortInputs(n) == PortLists(n)

(***************************************************************************)
(* The commands. Each runtime call is one step; it can fail, and then it   *)
(* leaves the engine as it was.                                            *)
(***************************************************************************)
Commands == {"up", "down", "destroy", "rebuild"}

FirstStep(c) ==
    CASE c = "up" -> "imageExists"
      [] c = "down" -> "downFind"
      [] c = "destroy" -> "destroyFind"
      [] c = "rebuild" -> "rebuildFind"

Ended(p) == inv[p].pc \in {"idle", "done", "failed"}

\* The error a command returns: nil, or the name of the stage that failed
\* followed by what the stage reported.
NoErr == ""

\* The locals of an invocation. created, found and wasRunning are kept for the
\* properties only: whether containerID came from CreateContainer in this
\* invocation, the id the lookup returned, and whether that container was
\* running when its image was inspected. calls is the log of the runtime calls
\* the invocation has issued, err the error it returned, rebuilt the
\* configuration of the rebuild that returned success right before this
\* invocation (NoUp when the command before was not a successful rebuild).
IdleInv ==
    [cmd |-> "none", pc |-> "idle", config |-> <<>>, imageRef |-> "",
     cwd |-> "", env |-> "", command |-> "",
     containerName |-> "", containerID |-> NoContainer, created |-> FALSE,
     found |-> NoContainer, currentImage |-> "", wasRunning |-> FALSE,
     calls |-> <<>>, err |-> NoErr, rebuilt |-> NoUp]

\* The shell a configuration sets: the file <<1>> sets bash, the others none.
Shell(config) == IF config = <<1>> THEN "bash" ELSE ""

\* GetShell: the configured shell, zsh when none is set.
GetShell(config) == IF Shell(config) = "" THEN "zsh" ELSE Shell(config)

\* runSession(nil): command = []string{"/bin/" + cfg.GetShell()}
SessionCommand(config) == "/bin/" \o GetShell(config)

\* cfg.ExpandEnvVars(): every env value is expanded from the host's environment.
\* The empty file has no env entry, the others the entry TOKEN: ${TOKEN}.
ExpandEnvVars(config, hostEnv) ==
    IF config = <<>> THEN "" ELSE "TOKEN=" \o hostEnv

\* Another project's container and image, which no command of this project
\* may touch.
OtherContainer ==
    [id |-> 1, names |-> {"/devbox-app2"}, image |-> "devbox-app2:0123456789ab",
     workDir |-> "/home/dev/app2", env |-> "", command |-> "/bin/zsh",
     running |-> TRUE]

OtherImage == "devbox-app2:0123456789ab"

\* The engine before the first command: the other project's container and image,
\* and for this project either nothing or one container (running or stopped)
\* created from an earlier configuration, with its image.
Init ==
    /\ InitAttach
    /\ InitPure
    /\ configBytes \in Configs
    /\ \E old \in Configs \cup {NoUp} :
         IF old = NoUp
         THEN /\ images = {OtherImage}
              /\ containers = {OtherContainer}
              /\ nextId = 2
         ELSE /\ images = {OtherImage, ImageRef(GetProjectName(Cwd), ComputeHash(old))}
              /\ \E r \in BOOLEAN :
                   containers =
                     {OtherContainer,
                      [id |-> 2,
                       names |-> {"/" \o ContainerName(GetProjectName(Cwd))},
                       image |-> ImageRef(GetProjectName(Cwd), ComputeHash(old)),
                       workDir |-> Cwd,
                       env |-> ExpandEnvVars(old, HostEnv),
                       command |-> SessionCommand(old),
                       running |-> r]}
              /\ nextId = 3
    /\ inv = [p \in {1} |-> IdleInv]
    /\ lastUp = NoUp

\* docker.ContainerConfig{ImageRef: imageRef, ContainerName: containerName,
\* WorkDir: cwd, Env: cfg.Env, Command: command}; the ports are the subject of
\* SpecPorts.
ContainerConfig(p) ==
    [ImageRef |-> inv[p].imageRef, ContainerName |-> inv[p].containerName,
     WorkDir |-> inv[p].cwd, Env |-> inv[p].env, Command |-> inv[p].command]

\* The invocation of p records a runtime call.
Call(p, op, arg) == Append(inv[p].calls, <<op, arg>>)

\* The invocation of p returns an error: return fmt.Errorf("<stage>: %w", err).
Fail(p, calls, stage) ==
    /\ inv' = [inv EXCEPT ![p].pc = "failed", ![p].calls = calls, ![p].err = stage]
    /\ lastUp' = NoUp

\* The user edits the configuration file between two invocations.
EditConfig ==
    /\ \A p \in DOMAIN inv : Ended(p)
    /\ \E c \in Configs \ {configBytes} : configBytes' = c
    /\ UNCHANGED <<images, containers, nextId, inv, lastUp>>
    /\ UNCHANGED <<avars, pvars>>

\* A command starts: it reads the working directory and the configuration file,
\* and computes the project's names. No other invocation is under way.
Begin(p) ==
    /\ \A q \in DOMAIN inv : Ended(q)
    /\ \E c \in Commands :
         /\ c = "up" => nextId <= MaxIds
         /\ inv' = [inv EXCEPT ![p] =
                [cmd |-> c,
                 pc |-> FirstStep(c),
                 config |-> configBytes,
                 imageRef |-> IF c \in {"up", "rebuild"}
                              THEN ImageRef(GetProjectName(Cwd),
                                            ComputeConfigHash(ConfigPath(Cwd)))
                              ELSE "",
                 cwd |-> Cwd,
                 env |-> IF c = "up" THEN ExpandEnvVars(configBytes, HostEnv)
                         ELSE "",
                 command |-> IF c = "up" THEN SessionCommand(configBytes) ELSE "",
                 containerName |-> ContainerName(GetProjectName(Cwd)),
                 containerID |-> NoContainer,
                 created |-> FALSE,
                 found |-> NoContainer,
                 currentImage |-> "",
                 wasRunning |-> FALSE,
                 calls |-> <<>>,
                 err |-> NoErr,
                 rebuilt |-> IF inv[p].cmd = "rebuild" /\ inv[p].pc = "done"
                             THEN inv[p].config ELSE NoUp]]
    /\ UNCHANGED <<configBytes, images, containers, nextId, lastUp>>
    /\ UNCHANGED <<avars, pvars>>

\* ---- runSession (up) ----

\* A mutant of SessionImageExists: the image is built whether it exists or not.
SessionImageExistsAlwaysBuilds(p) ==
    /\ inv[p].pc = "imageExists"
    /\ LET calls == Call(p, "ImageExists", inv[p].imageRef) IN
       \E ok \in BOOLEAN :
         IF ok
         THEN /\ inv' = [inv EXCEPT ![p].calls = calls, ![p].pc = "generate"]
              /\ UNCHANGED lastUp
         ELSE Fail(p, calls, "checking image")
    /\ UNCHANGED <<configBytes, images, containers, nextId>>
    /\ UNCHANGED <<avars, pvars>>

\* imageExists, err := dockerClient.ImageExists(ctx, imageRef)
SessionImageExists(p) ==
    /\ inv[p].pc = "imageExists"
    /\ LET calls == Call(p, "ImageExists", inv[p].imageRef) IN
       \E ok \in BOOLEAN :
         IF ok
         THEN /\ inv' = [inv EXCEPT ![p].calls = calls,
                           ![p].pc = IF ImageExists(inv[p].imageRef)
                                     THEN "find" ELSE "generate"]
              /\ UNCHANGED lastUp
         ELSE Fail(p, calls, "checking image")
    /\ UNCHANGED <<configBytes, images, containers, nextId>>
    /\ UNCHANGED <<avars, pvars>>

\* dockerfileContent, err := dockerfile.Generate(cfg)
SessionGenerate(p) ==
    /\ inv[p].pc = "generate"
    /\ \E ok \in BOOLEAN :
         IF ok
         THEN inv' = [inv EXCEPT ![p].pc = "build"] /\ UNCHANGED lastUp
         ELSE Fail(p, inv[p].calls, "generating dockerfile")
    /\ UNCHANGED <<configBytes, images, containers, nextId>>
    /\ UNCHANGED <<avars, pvars>>

\* A mutant of SessionBuild: a failed build is reported but reconcile goes on to
\* the container stage.
SessionBuildGoesOn(p) ==
    /\ inv[p].pc = "build"
    /\ LET calls == Call(p, "BuildImage", inv[p].imageRef) IN
       \E out \in {"ok"} \cup BuildImageErrors :
         IF out = "ok"
         THEN /\ images' = BuildImage(inv[p].imageRef)
              /\ inv' = [inv EXCEPT ![p].calls = calls, ![p].pc = "find"]
              /\ UNCHANGED lastUp
         ELSE /\ inv' = [inv EXCEPT ![p].calls = calls, ![p].pc = "find",
                           ![p].err = "building image: " \o out]
              /\ UNCHANGED <<images, lastUp>>
    /\ UNCHANGED <<configBytes, containers, nextId>>
    /\ UNCHANGED <<avars, pvars>>

\* dockerClient.BuildImage(ctx, dockerfileContent, imageRef)
SessionBuild(p) ==
    /\ inv[p].pc = "build"
    /\ LET calls == Call(p, "BuildImage", inv[p].imageRef) IN
       \E out \in {"ok"} \cup BuildImageErrors :
         IF out = "ok"
         THEN /\ images' = BuildImage(inv[p].imageRef)
              /\ inv' = [inv EXCEPT ![p].calls = calls, ![p].pc = "find"]
              /\ UNCHANGED lastUp
         ELSE Fail(p, calls, "building image: " \o out) /\ UNCHANGED images
    /\ UNCHANGED <<configBytes, containers, nextId>>
    /\ UNCHANGED <<avars, pvars>>

\* A mutant of SessionFind: a failed lookup is tried again.
SessionFindRetries(p) ==
    /\ inv[p].pc = "find"
    /\ LET calls == Call(p, "FindContainer", inv[p].containerName) IN
       \E ok \in BOOLEAN :
         IF ok
         THEN /\ \E id \in FindContainer(inv[p].containerName) :
                   inv' = [inv EXCEPT ![p].calls = calls,
                             ![p].containerID = id,
                             ![p].found = id,
                             ![p].pc = IF id # NoContainer
                                       THEN "getImage" ELSE "create"]
              /\ UNCHANGED lastUp
         ELSE /\ inv' = [inv EXCEPT ![p].calls = calls]
              /\ UNCHANGED lastUp
    /\ UNCHANGED <<configBytes, images, containers, nextId>>
    /\ UNCHANGED <<avars, pvars>>

\* containerID, err := dockerClient.FindContainer(ctx, containerName)
SessionFind(p) ==
    /\ inv[p].pc = "find"
    /\ LET calls == Call(p, "FindContainer", inv[p].containerName) IN
       \E ok \in BOOLEAN :
         IF ok
         THEN /\ \E id \in FindContainer(inv[p].containerName) :
                   inv' = [inv EXCEPT ![p].calls = calls,
                             ![p].containerID = id,
                             ![p].found = id,
                             ![p].pc = IF id # NoContainer
                                       THEN "getImage" ELSE "create"]
              /\ UNCHANGED lastUp
         ELSE Fail(p, calls, "finding container")
    /\ UNCHANGED <<configBytes, images, containers, nextId>>
    /\ UNCHANGED <<avars, pvars>>

\* A mutant of SessionGetImage: the image is read but a differing image does not
\* lead to the container's removal.
SessionGetImageKeep(p) ==
    /\ inv[p].pc = "getImage"
    /\ LET calls == Call(p, "GetContainerImage", inv[p].containerID) IN
       \E ok \in {b \in BOOLEAN : b => Exists(inv[p].containerID)} :
         IF ok
         THEN /\ inv' = [inv EXCEPT ![p].calls = calls,
                           ![p].currentImage = GetContainerImage(inv[p].containerID),
                           ![p].wasRunning = ContainerOf(inv[p].containerID).running,
                           ![p].pc = "isRunning"]
              /\ UNCHANGED lastUp
         ELSE Fail(p, calls, "getting container image")
    /\ UNCHANGED <<configBytes, images, containers, nextId>>
    /\ UNCHANGED <<avars, pvars>>

\* A mutant of SessionGetImage: a container whose workspace mount is not the
\* working directory is removed like one with another image.
SessionGetImageComparesMount(p) ==
    /\ inv[p].pc = "getImage"
    /\ LET calls == Call(p, "GetContainerImage", inv[p].containerID) IN
       \E ok \in {b \in BOOLEAN : b => Exists(inv[p].containerID)} :
         IF ok
         THEN /\ inv' = [inv EXCEPT ![p].calls = calls,
                           ![p].currentImage = GetContainerImage(inv[p].containerID),
                           ![p].wasRunning = ContainerOf(inv[p].containerID).running,
                           ![p].pc = IF \/ GetContainerImage(inv[p].containerID)
                                             # inv[p].imageRef
                                        \/ ContainerOf(inv[p].containerID).workDir
                                             # inv[p].cwd
                                     THEN "remove" ELSE "isRunning"]
              /\ UNCHANGED lastUp
         ELSE Fail(p, calls, "getting container image")
    /\ UNCHANGED <<configBytes, images, containers, nextId>>
    /\ UNCHANGED <<avars, pvars>>

\* currentImage, err := dockerClient.GetContainerImage(ctx, containerID);
\* if currentImage != imageRef the old container is to be removed
SessionGetImage(p) ==
    /\ inv[p].pc = "getImage"
    /\ LET calls == Call(p, "GetContainerImage", inv[p].containerID) IN
       \E ok \in {b \in BOOLEAN : b => Exists(inv[p].containerID)} :
         IF ok
         THEN /\ inv' = [inv EXCEPT ![p].calls = calls,
                           ![p].currentImage = GetContainerImage(inv[p].containerID),
                           ![p].wasRunning = ContainerOf(inv[p].containerID).running,
                           ![p].pc = IF GetContainerImage(inv[p].containerID)
                                          # inv[p].imageRef
                                     THEN "remove" ELSE "isRunning"]
              /\ UNCHANGED lastUp
         ELSE Fail(p, calls, "getting container image")
    /\ UNCHANGED <<configBytes, images, containers, nextId>>
    /\ UNCHANGED <<avars, pvars>>

\* A mutant of SessionRemove: the container is stopped before it is removed.
SessionRemoveStopFirst(p) ==
    /\ inv[p].pc = "remove"
    /\ LET calls == Append(Call(p, "StopContainer", inv[p].containerID),
                           <<"RemoveContainer", inv[p].containerID>>) IN
       \E ok \in {b \in BOOLEAN : b => CanRemove(inv[p].containerID, TRUE)} :
         IF ok
         THEN /\ containers' = RemoveContainer(inv[p].containerID, TRUE)
              /\ inv' = [inv EXCEPT ![p].calls = calls,
                           ![p].containerID = NoContainer,
                           ![p].pc = "create"]
              /\ UNCHANGED lastUp
         ELSE Fail(p, calls, "removing old container") /\ UNCHANGED containers
    /\ UNCHANGED <<configBytes, images, nextId>>
    /\ UNCHANGED <<avars, pvars>>

\* dockerClient.RemoveContainer(ctx, containerID, true); containerID = ""
SessionRemove(p) ==
    /\ inv[p].pc = "remove"
    /\ LET calls == Call(p, "RemoveContainer", inv[p].containerID) IN
       \E ok \in {b \in BOOLEAN : b => CanRemove(inv[p].containerID, TRUE)} :
         IF ok
         THEN /\ containers' = RemoveContainer(inv[p].containerID, TRUE)
              /\ inv' = [inv EXCEPT ![p].calls = calls,
                           ![p].containerID = NoContainer,
                           ![p].pc = "create"]
              /\ UNCHANGED lastUp
         ELSE Fail(p, calls, "removing old container") /\ UNCHANGED containers
    /\ UNCHANGED <<configBytes, images, nextId>>
    /\ UNCHANGED <<avars, pvars>>

\* A mutant of SessionCreate: when a container with the name has appeared since
\* the lookup, no CreateContainer is issued and the lookup is done again.
SessionCreateLooksAgain(p) ==
    /\ inv[p].pc = "create"
    /\ LET calls == Call(p, "CreateContainer", inv[p].containerName) IN
       IF Named(inv[p].containerName) # {}
       THEN /\ inv' = [inv EXCEPT ![p].pc = "find"]
            /\ UNCHANGED <<containers, nextId, lastUp>>
       ELSE \E ok \in BOOLEAN :
              IF ok
              THEN /\ containers' = CreateContainer(ContainerConfig(p))
                   /\ nextId' = nextId + 1
                   /\ inv' = [inv EXCEPT ![p].calls = calls,
                                ![p].containerID = nextId,
                                ![p].created = TRUE,
                                ![p].pc = "isRunning"]
                   /\ UNCHANGED lastUp
              ELSE Fail(p, calls, "creating container")
                   /\ UNCHANGED <<containers, nextId>>
    /\ UNCHANGED <<configBytes, images>>
    /\ UNCHANGED <<avars, pvars>>

\* containerID, err = dockerClient.CreateContainer(ctx, docker.ContainerConfig{...})
SessionCreate(p) ==
    /\ inv[p].pc = "create"
    /\ LET calls == Call(p, "CreateContainer", inv[p].containerName) IN
       \E ok \in BOOLEAN :
         IF ok
         THEN /\ containers' = CreateContainer(ContainerConfig(p))
              /\ nextId' = nextId + 1
              /\ inv' = [inv EXCEPT ![p].calls = calls,
                           ![p].containerID = nextId,
                           ![p].created = TRUE,
                           ![p].pc = "isRunning"]
              /\ UNCHANGED lastUp
         ELSE Fail(p, calls, "creating container") /\ UNCHANGED <<containers, nextId>>
    /\ UNCHANGED <<configBytes, images>>
    /\ UNCHANGED <<avars, pvars>>

\* A mutant of SessionIsRunning: the container is started whatever its state.
SessionIsRunningAlwaysStarts(p) ==
    /\ inv[p].pc = "isRunning"
    /\ LET calls == Call(p, "IsContainerRunning", inv[p].containerID) IN
       \E ok \in {b \in BOOLEAN : b => Exists(inv[p].containerID)} :
         IF ok
         THEN /\ inv' = [inv EXCEPT ![p].calls = calls, ![p].pc = "start"]
              /\ UNCHANGED lastUp
         ELSE Fail(p, calls, "checking container status")
    /\ UNCHANGED <<configBytes, images, containers, nextId>>
    /\ UNCHANGED <<avars, pvars>>

\* running, err := dockerClient.IsContainerRunning(ctx, containerID)
SessionIsRunning(p) ==
    /\ inv[p].pc = "isRunning"
    /\ LET calls == Call(p, "IsContainerRunning", inv[p].containerID) IN
       \E ok \in {b \in BOOLEAN : b => Exists(inv[p].containerID)} :
         IF ok
         THEN /\ inv' = [inv EXCEPT ![p].calls = calls,
                           ![p].pc = IF IsContainerRunning(inv[p].containerID)
                                     THEN "attach" ELSE "start"]
              /\ UNCHANGED lastUp
         ELSE Fail(p, calls, "checking container status")
    /\ UNCHANGED <<configBytes, images, containers, nextId>>
    /\ UNCHANGED <<avars, pvars>>

\* A mutant of SessionStart: the error of StartContainer is dropped and
\* reconcile goes on to attach.
SessionStartErrDropped(p) ==
    /\ inv[p].pc = "start"
    /\ LET calls == Call(p, "StartContainer", inv[p].containerID) IN
       \E ok \in {b \in BOOLEAN : b => Exists(inv[p].containerID)} :
         IF ok
         THEN /\ containers' = StartContainer(inv[p].containerID)
              /\ inv' = [inv EXCEPT ![p].calls = calls, ![p].pc = "attach"]
              /\ UNCHANGED lastUp
         ELSE /\ inv' = [inv EXCEPT ![p].calls = calls, ![p].pc = "attach",
                           ![p].err = "starting container"]
              /\ UNCHANGED <<containers, lastUp>>
    /\ UNCHANGED <<configBytes, images, nextId>>
    /\ UNCHANGED <<avars, pvars>>

\* dockerClient.StartContainer(ctx, containerID)
SessionStart(p) ==
    /\ inv[p].pc = "start"
    /\ LET calls == Call(p, "StartContainer", inv[p].containerID) IN
       \E ok \in {b \in BOOLEAN : b => Exists(inv[p].containerID)} :
         IF ok
         THEN /\ containers' = StartContainer(inv[p].containerID)
              /\ inv' = [inv EXCEPT ![p].calls = calls, ![p].pc = "attach"]
              /\ UNCHANGED lastUp
         ELSE Fail(p, calls, "starting container") /\ UNCHANGED containers
    /\ UNCHANGED <<configBytes, images, nextId>>
    /\ UNCHANGED <<avars, pvars>>

\* dockerClient.Attach(ctx, containerID, command): the session runs and ends;
\* runSession returns nil or the wrapped error.
SessionAttach(p) ==
    /\ inv[p].pc = "attach"
    /\ \E ok \in BOOLEAN :
         inv' = [inv EXCEPT ![p].calls = Call(p, "Attach", inv[p].containerID),
                   ![p].pc = IF ok THEN "done" ELSE "failed",
                   ![p].err = IF ok THEN NoErr ELSE "attaching to container"]
    /\ lastUp' = inv[p].config
    /\ UNCHANGED <<configBytes, images, containers, nextId>>
    /\ UNCHANGED <<avars, pvars>>

\* The invocation of p, which is not a reconcile, returns nil.
Done(p, calls) ==
    /\ inv' = [inv EXCEPT ![p].pc = "done", ![p].calls = calls]
    /\ lastUp' = NoUp

\* RemoveImagesByName: ImageList, then one forced ImageRemove per matching image;
\* a removal that fails is reported and skipped. removed is the set of images
\* whose removal succeeded (none when the listing itself failed).
RemoveImagesByName(imageName, removed) ==
    /\ removed \subseteq MatchingImages(imageName)
    /\ images' = images \ removed

\* ---- runDown ----

\* containerID, err := dockerClient.FindContainer(ctx, containerName)
DownFind(p) ==
    /\ inv[p].pc = "downFind"
    /\ LET calls == Call(p, "FindContainer", inv[p].containerName) IN
       \E ok \in BOOLEAN :
         IF ok
         THEN \E id \in FindContainer(inv[p].containerName) :
                IF id = NoContainer
                THEN Done(p, calls)
                ELSE /\ inv' = [inv EXCEPT ![p].calls = calls,
                                  ![p].containerID = id,
                                  ![p].pc = "downIsRunning"]
                     /\ UNCHANGED lastUp
         ELSE Fail(p, calls, "finding container")
    /\ UNCHANGED <<configBytes, images, containers, nextId>>
    /\ UNCHANGED <<avars, pvars>>

\* running, err := dockerClient.IsContainerRunning(ctx, containerID)
DownIsRunning(p) ==
    /\ inv[p].pc = "downIsRunning"
    /\ LET calls == Call(p, "IsContainerRunning", inv[p].containerID) IN
       \E ok \in {b \in BOOLEAN : b => Exists(inv[p].containerID)} :
         IF ok
         THEN IF IsContainerRunning(inv[p].containerID)
              THEN /\ inv' = [inv EXCEPT ![p].calls = calls, ![p].pc = "downStop"]
                   /\ UNCHANGED lastUp
              ELSE Done(p, calls)
         ELSE Fail(p, calls, "checking container status")
    /\ UNCHANGED <<configBytes, images, containers, nextId>>
    /\ UNCHANGED <<avars, pvars>>

\* A mutant of DownStop: the stopped container is removed as well.
DownStopAndRemove(p) ==
    /\ inv[p].pc = "downStop"
    /\ LET calls == Call(p, "StopContainer", inv[p].containerID) IN
       \E ok \in {b \in BOOLEAN : b => Exists(inv[p].containerID)} :
         IF ok
         THEN /\ containers' = RemoveContainer(inv[p].containerID, TRUE)
              /\ Done(p, Append(calls, <<"WaitContainer", inv[p].containerID>>))
         ELSE Fail(p, calls, "stopping container") /\ UNCHANGED containers
    /\ UNCHANGED <<configBytes, images, nextId>>
    /\ UNCHANGED <<avars, pvars>>

\* dockerClient.StopContainer(ctx, containerID), then WaitContainer, whose error
\* is ignored
DownStop(p) ==
    /\ inv[p].pc = "downStop"
    /\ LET calls == Call(p, "StopContainer", inv[p].containerID) IN
       \E ok \in {b \in BOOLEAN : b => Exists(inv[p].containerID)} :
         IF ok
         THEN /\ containers' = StopContainer(inv[p].containerID)
              /\ Done(p, Append(calls, <<"WaitContainer", inv[p].containerID>>))
         ELSE Fail(p, calls, "stopping container") /\ UNCHANGED containers
    /\ UNCHANGED <<configBytes, images, nextId>>
    /\ UNCHANGED <<avars, pvars>>

\* ---- runDestroy ----

\* containerID, err := dockerClient.FindContainer(ctx, containerName)
DestroyFind(p) ==
    /\ inv[p].pc = "destroyFind"
    /\ LET calls == Call(p, "FindContainer", inv[p].containerName) IN
       \E ok \in BOOLEAN :
         IF ok
         THEN /\ \E id \in FindContainer(inv[p].containerName) :
                   inv' = [inv EXCEPT ![p].calls = calls,
                             ![p].containerID = id,
                             ![p].pc = IF id # NoContainer
                                       THEN "destroyIsRunning"
                                       ELSE "destroyRmImages"]
              /\ UNCHANGED lastUp
         ELSE Fail(p, calls, "finding container")
    /\ UNCHANGED <<configBytes, images, containers, nextId>>
    /\ UNCHANGED <<avars, pvars>>

\* A mutant of DestroyIsRunning: a running container is not stopped before it
\* is removed.
DestroyIsRunningNoStop(p) ==
    /\ inv[p].pc = "destroyIsRunning"
    /\ LET calls == Call(p, "IsContainerRunning", inv[p].containerID) IN
       \E ok \in {b \in BOOLEAN : b => Exists(inv[p].containerID)} :
         IF ok
         THEN /\ inv' = [inv EXCEPT ![p].calls = calls, ![p].pc = "destroyRemove"]
              /\ UNCHANGED lastUp
         ELSE Fail(p, calls, "checking container status")
    /\ UNCHANGED <<configBytes, images, containers, nextId>>
    /\ UNCHANGED <<avars, pvars>>

\* running, err := dockerClient.IsContainerRunning(ctx, containerID)
DestroyIsRunning(p) ==
    /\ inv[p].pc = "destroyIsRunning"
    /\ LET calls == Call(p, "IsContainerRunning", inv[p].containerID) IN
       \E ok \in {b \in BOOLEAN : b => Exists(inv[p].containerID)} :
         IF ok
         THEN /\ inv' = [inv EXCEPT ![p].calls = calls,
                           ![p].pc = IF IsContainerRunning(inv[p].containerID)
                                     THEN "destroyStop" ELSE "destroyRemove"]
              /\ UNCHANGED lastUp
         ELSE Fail(p, calls, "checking container status")
    /\ UNCHANGED <<configBytes, images, containers, nextId>>
    /\ UNCHANGED <<avars, pvars>>

\* dockerClient.StopContainer(ctx, containerID); _ = dockerClient.WaitContainer(...)
DestroyStop(p) ==
    /\ inv[p].pc = "destroyStop"
    /\ LET calls == Call(p, "StopContainer", inv[p].containerID) IN
       \E ok \in {b \in BOOLEAN : b => Exists(inv[p].containerID)} :
         IF ok
         THEN /\ containers' = StopContainer(inv[p].containerID)
              /\ inv' = [inv EXCEPT
                           ![p].calls = Append(calls, <<"WaitContainer",
                                                        inv[p].containerID>>),
                           ![p].pc = "destroyRemove"]
              /\ UNCHANGED lastUp
         ELSE Fail(p, calls, "stopping container") /\ UNCHANGED containers
    /\ UNCHANGED <<configBytes, images, nextId>>
    /\ UNCHANGED <<avars, pvars>>

\* dockerClient.RemoveContainer(ctx, containerID, true)
DestroyRemove(p) ==
    /\ inv[p].pc = "destroyRemove"
    /\ LET calls == Call(p, "RemoveContainer", inv[p].containerID) IN
       \E ok \in {b \in BOOLEAN : b => CanRemove(inv[p].containerID, TRUE)} :
         IF ok
         THEN /\ containers' = RemoveContainer(inv[p].containerID, TRUE)
              /\ inv' = [inv EXCEPT ![p].calls = calls, ![p].pc = "destroyRmImages"]
              /\ UNCHANGED lastUp
         ELSE Fail(p, calls, "removing container") /\ UNCHANGED containers
    /\ UNCHANGED <<configBytes, images, nextId>>
    /\ UNCHANGED <<avars, pvars>>

\* dockerClient.RemoveImagesByName(ctx, imageName), whose error is only printed
DestroyRmImages(p) ==
    /\ inv[p].pc = "destroyRmImages"
    /\ \E removed \in SUBSET MatchingImages(ImageName(GetProjectName(Cwd))) :
         RemoveImagesByName(ImageName(GetProjectName(Cwd)), removed)
    /\ Done(p, Call(p, "RemoveImagesByName", ImageName(GetProjectName(Cwd))))
    /\ UNCHANGED <<configBytes, containers, nextId>>
    /\ UNCHANGED <<avars, pvars>>

\* ---- runRebuild ----

\* A mutant of RebuildFind: the container that was found is left in place.
RebuildFindKeepsContainer(p) ==
    /\ inv[p].pc = "rebuildFind"
    /\ LET calls == Call(p, "FindContainer", inv[p].containerName) IN
       \E ok \in BOOLEAN :
         IF ok
         THEN /\ \E id \in FindContainer(inv[p].containerName) :
                   inv' = [inv EXCEPT ![p].calls = calls,
                             ![p].containerID = id,
                             ![p].pc = "rebuildRmImages"]
              /\ UNCHANGED lastUp
         ELSE Fail(p, calls, "finding container")
    /\ UNCHANGED <<configBytes, images, containers, nextId>>
    /\ UNCHANGED <<avars, pvars>>

\* containerID, err := dockerClient.FindContainer(ctx, containerName)
RebuildFind(p) ==
    /\ inv[p].pc = "rebuildFind"
    /\ LET calls == Call(p, "FindContainer", inv[p].containerName) IN
       \E ok \in BOOLEAN :
         IF ok
         THEN /\ \E id \in FindContainer(inv[p].containerName) :
                   inv' = [inv EXCEPT ![p].calls = calls,
                             ![p].containerID = id,
                             ![p].pc = IF id # NoContainer
                                       THEN "rebuildRemove"
                                       ELSE "rebuildRmImages"]
              /\ UNCHANGED lastUp
         ELSE Fail(p, calls, "finding container")
    /\ UNCHANGED <<configBytes, images, containers, nextId>>
    /\ UNCHANGED <<avars, pvars>>

\* dockerClient.RemoveContainer(ctx, containerID, true)
RebuildRemove(p) ==
    /\ inv[p].pc = "rebuildRemove"
    /\ LET calls == Call(p, "RemoveContainer", inv[p].containerID) IN
       \E ok \in {b \in BOOLEAN : b => CanRemove(inv[p].containerID, TRUE)} :
         IF ok
         THEN /\ containers' = RemoveContainer(inv[p].containerID, TRUE)
              /\ inv' = [inv EXCEPT ![p].calls = calls, ![p].pc = "rebuildRmImages"]
              /\ UNCHANGED lastUp
         ELSE Fail(p, calls, "removing container") /\ UNCHANGED containers
    /\ UNCHANGED <<configBytes, images, nextId>>
    /\ UNCHANGED <<avars, pvars>>

\* dockerClient.RemoveImagesByName(ctx, imageName), whose error is only printed
RebuildRmImages(p) ==
    /\ inv[p].pc = "rebuildRmImages"
    /\ \E removed \in SUBSET MatchingImages(ImageName(GetProjectName(Cwd))) :
         RemoveImagesByName(ImageName(GetProjectName(Cwd)), removed)
    /\ inv' = [inv EXCEPT
                 ![p].calls = Call(p, "RemoveImagesByName",
                                   ImageName(GetProjectName(Cwd))),
                 ![p].pc = "rebuildGenerate"]
    /\ UNCHANGED <<configBytes, containers, nextId, lastUp>>
    /\ UNCHANGED <<avars, pvars>>

\* dockerfileContent, err := dockerfile.Generate(cfg)
RebuildGenerate(p) ==
    /\ inv[p].pc = "rebuildGenerate"
    /\ \E ok \in BOOLEAN :
         IF ok
         THEN inv' = [inv EXCEPT ![p].pc = "rebuildBuild"] /\ UNCHANGED lastUp
         ELSE Fail(p, inv[p].calls, "generating dockerfile")
    /\ UNCHANGED <<configBytes, images, containers, nextId>>
    /\ UNCHANGED <<avars, pvars>>

\* dockerClient.BuildImage(ctx, dockerfileContent, imageRef)
RebuildBuild(p) ==
    /\ inv[p].pc = "rebuildBuild"
    /\ LET calls == Call(p, "BuildImage", inv[p].imageRef) IN
       \E out \in {"ok"} \cup BuildImageErrors :
         IF out = "ok"
         THEN images' = BuildImage(inv[p].imageRef) /\ Done(p, calls)
         ELSE Fail(p, calls, "building image: " \o out) /\ UNCHANGED images
    /\ UNCHANGED <<configBytes, containers, nextId>>
    /\ UNCHANGED <<avars, pvars>>

Next ==
    \/ EditConfig
    \/ \E p \in DOMAIN inv : Begin(p)
    \/ \E p \in DOMAIN inv : SessionImageExists(p)
    \/ \E p \in DOMAIN inv : SessionGenerate(p)
    \/ \E p \in DOMAIN inv : SessionBuild(p)
    \/ \E p \in DOMAIN inv : SessionFind(p)
    \/ \E p \in DOMAIN inv : SessionGetImage(p)
    \/ \E p \in DOMAIN inv : SessionRemove(p)
    \/ \E p \in DOMAIN inv : SessionCreate(p)
    \/ \E p \in DOMAIN inv : SessionIsRunning(p)
    \/ \E p \in DOMAIN inv : SessionStart(p)
    \/ \E p \in DOMAIN inv : SessionAttach(p)
    \/ \E p \in DOMAIN inv : DownFind(p)
    \/ \E p \in DOMAIN inv : DownIsRunning(p)
    \/ \E p \in DOMAIN inv : DownStop(p)
    \/ \E p \in DOMAIN inv : DestroyFind(p)
    \/ \E p \in DOMAIN inv : DestroyIsRunning(p)
    \/ \E p \in DOMAIN inv : DestroyStop(p)
    \/ \E p \in DOMAIN inv : DestroyRemove(p)
    \/ \E p \in DOMAIN inv : DestroyRmImages(p)
    \/ \E p \in DOMAIN inv : RebuildFind(p)
    \/ \E p \in DOMAIN inv : RebuildRemove(p)
    \/ \E p \in DOMAIN inv : RebuildRmImages(p)
    \/ \E p \in DOMAIN inv : RebuildGenerate(p)
    \/ \E p \in DOMAIN inv : RebuildBuild(p)

Spec == Init /\ [][Next]_vars

\* ---- two reconciles of the same project side by side ----

\* Two shells in the same working directory, the project without a container;
\* the image of the configuration has been built already or not.
InitConcurrent ==
    /\ InitAttach
    /\ InitPure
    /\ configBytes \in Configs
    /\ \E built \in BOOLEAN :
         images = {OtherImage} \cup
                  (IF built
                   THEN {ImageRef(GetProjectName(Cwd), ComputeHash(configBytes))}
                   ELSE {})
    /\ containers = {OtherContainer}
    /\ nextId = 2
    /\ inv = [p \in {1, 2} |-> IdleInv]
    /\ lastUp = NoUp

\* A shell runs the reconcile, whatever the other shell is doing; each shell
\* runs it once.
BeginConcurrent(p) ==
    /\ inv[p].pc = "idle"
    /\ inv' = [inv EXCEPT ![p] =
           [IdleInv EXCEPT
              !.cmd = "up",
              !.pc = FirstStep("up"),
              !.config = configBytes,
              !.imageRef = ImageRef(GetProjectName(Cwd),
                                    ComputeConfigHash(ConfigPath(Cwd))),
              !.cwd = Cwd,
              !.env = ExpandEnvVars(configBytes, HostEnv),
              !.command = SessionCommand(configBytes),
              !.containerName = ContainerName(GetProjectName(Cwd))]]
    /\ UNCHANGED <<configBytes, images, containers, nextId, lastUp>>
    /\ UNCHANGED <<avars, pvars>>

NextConcurrent ==
    \/ EditConfig
    \/ \E p \in DOMAIN inv : BeginConcurrent(p)
    \/ \E p \in DOMAIN inv : SessionImageExists(p)
    \/ \E p \in DOMAIN inv : SessionGenerate(p)
    \/ \E p \in DOMAIN inv : SessionBuild(p)
    \/ \E p \in DOMAIN inv : SessionFind(p)
    \/ \E p \in DOMAIN inv : SessionGetImage(p)
    \/ \E p \in DOMAIN inv : SessionRemove(p)
    \/ \E p \in DOMAIN inv : SessionCreate(p)
    \/ \E p \in DOMAIN inv : SessionIsRunning(p)
    \/ \E p \in DOMAIN inv : SessionStart(p)
    \/ \E p \in DOMAIN inv : SessionAttach(p)

SpecConcurrent == InitConcurrent /\ [][NextConcurrent]_vars

\* ---- reconciles started in several directories and host environments ----

\* The directories the user runs up in, two with the same base name. Each holds
\* a configuration file; configBytes is the content of the file of the
\* directory a command starts in.
Dirs == {Cwd, "/srv/app"}

\* The engine before the first up: the project has no container and no image.
InitAnywhere ==
    /\ InitAttach
    /\ InitPure
    /\ configBytes \in Configs
    /\ images = {OtherImage}
    /\ containers = {OtherContainer}
    /\ nextId = 2
    /\ inv = [p \in {1} |-> IdleInv]
    /\ lastUp = NoUp

\* The values the host's variable TOKEN has when a command starts.
HostEnvs == {HostEnv, "b"}

\* runSession starts: os.Getwd(), config.Load, cfg.ExpandEnvVars(), the command,
\* and the project's names, in any of the directories and host environments.
BeginAnywhere(p) ==
    /\ \A q \in DOMAIN inv : Ended(q)
    /\ nextId <= MaxIds
    /\ \E dir \in Dirs, hostEnv \in HostEnvs :
         inv' = [inv EXCEPT ![p] =
            [IdleInv EXCEPT
               !.cmd = "up",
               !.pc = FirstStep("up"),
               !.config = configBytes,
               !.cwd = dir,
               !.env = ExpandEnvVars(configBytes, hostEnv),
               !.command = SessionCommand(configBytes),
               !.imageRef = ImageRef(GetProjectName(dir),
                                     ComputeConfigHash(ConfigPath(dir))),
               !.containerName = ContainerName(GetProjectName(dir))]]
    /\ UNCHANGED <<configBytes, images, containers, nextId, lastUp>>
    /\ UNCHANGED <<avars, pvars>>

NextAnywhere ==
    \/ EditConfig
    \/ \E p \in DOMAIN inv : BeginAnywhere(p)
    \/ \E p \in DOMAIN inv : SessionImageExists(p)
    \/ \E p \in DOMAIN inv : SessionGenerate(p)
    \/ \E p \in DOMAIN inv : SessionBuild(p)
    \/ \E p \in DOMAIN inv : SessionFind(p)
    \/ \E p \in DOMAIN inv : SessionGetImage(p)
    \/ \E p \in DOMAIN inv : SessionRemove(p)
    \/ \E p \in DOMAIN inv : SessionCreate(p)
    \/ \E p \in DOMAIN inv : SessionIsRunning(p)
    \/ \E p \in DOMAIN inv : SessionStart(p)
    \/ \E p \in DOMAIN inv : SessionAttach(p)

SpecAnywhere == InitAnywhere /\ [][NextAnywhere]_vars

\* One call of Attach, with the engine's containers and images left as they are.
InitAttachCall ==
    /\ InitAttach
    /\ InitPure
    /\ configBytes = <<>>
    /\ images = {OtherImage}
    /\ containers = {OtherContainer}
    /\ nextId = 2
    /\ inv = [p \in {1} |-> IdleInv]
    /\ lastUp = NoUp

NextAttach ==
    \/ AttachCall
    \/ AttachExecCreate
    \/ AttachIsTerminal
    \/ AttachSetRaw
    \/ AttachExecAttach
    \/ AttachGoHandleResize
    \/ AttachInitialResize
    \/ AttachNotify
    \/ AttachGoSignal
    \/ AttachGoCopyOut
    \/ AttachGoCopyIn
    \/ AttachSelect
    \/ AttachSelect2
    \/ AttachRunDeferred
    \/ AttachReturned
    \/ \E t \in CopyTasks : CopyEnd(t)
    \/ \E t \in CopyTasks : CopySend(t)
    \/ HandleResizeDone
    \/ SignalRecv
    \/ SignalDone
    \/ Sigwinch
    \/ Cancel

SpecAttach == InitAttachCall /\ [][NextAttach]_vars

\* The Go scheduler runs every goroutine that can run: the goroutine of Attach
\* takes its next step when a case of its select is ready, runs its deferred
\* calls and returns, and a copy goroutine whose io.Copy has returned sends its
\* result on the buffered errCh. Nothing makes io.Copy return or the caller
\* cancel.
FairAttach ==
    /\ WF_vars(AttachSelect)
    /\ WF_vars(AttachSelect2)
    /\ WF_vars(AttachRunDeferred)
    /\ WF_vars(AttachReturned)
    /\ \A t \in CopyTasks : WF_vars(CopySend(t))

SpecAttachLive == SpecAttach /\ FairAttach

\* The resize goroutines are scheduled as well: a goroutine waiting in a select
\* whose ctx.Done() case is ready takes it in the end.
FairResize ==
    /\ WF_vars(HandleResizeDone)
    /\ WF_vars(SignalDone)

SpecAttachSched == SpecAttachLive /\ FairResize

\* ---- the port functions applied to one list of port specs ----

\* The engine and the commands at rest.
InitAtRest ==
    /\ configBytes = <<>>
    /\ images = {OtherImage}
    /\ containers = {OtherContainer}
    /\ nextId = 2
    /\ inv = [p \in {1} |-> IdleInv]
    /\ lastUp = NoUp

InitPorts ==
    /\ InitAttach
    /\ InitAtRest
    /\ portsIn \in PortInputs(MaxPortChars)
    /\ codeServerIn = NoCodeServer
    /\ validated = NotValidated
    /\ parsed = NotParsed
    /\ dataA = <<>>
    /\ dataB = <<>>
    /\ hashed = NotHashed
    /\ imageList = <<>>
    /\ rmResult = NotRemoved

\* cfg.Validate(): the loop over the port specs
PortsValidate ==
    /\ ~validated.done
    /\ validated' = [done |-> TRUE, err |-> ValidatePorts(portsIn, 1)]
    /\ UNCHANGED <<portsIn, codeServerIn, parsed, dataA, dataB, hashed, imageList,
                   rmResult>>
    /\ UNCHANGED <<avars, rvars>>

\* exposedPorts, portBindings, err := parsePortMappings(cfg.Ports)
PortsParse ==
    /\ ~parsed.done
    /\ parsed' = [done |-> TRUE,
                  exposedPorts |-> parsePortMappings(portsIn).exposedPorts,
                  portBindings |-> parsePortMappings(portsIn).portBindings,
                  err |-> parsePortMappings(portsIn).err]
    /\ UNCHANGED <<portsIn, codeServerIn, validated, dataA, dataB, hashed, imageList,
                   rmResult>>
    /\ UNCHANGED <<avars, rvars>>

NextPorts ==
    \/ PortsValidate
    \/ PortsParse

SpecPorts == InitPorts /\ [][NextPorts]_vars

\* ---- the image tag computed for two configurations ----

\* ---- the ports of a configuration, from Config.Validate to CreateContainer ----

InitAllPorts ==
    /\ InitAttach
    /\ InitAtRest
    /\ portsIn \in PortInputs(MaxPortChars - 1)
    /\ codeServerIn \in CodeServerInputs
    /\ validated = NotValidated
    /\ parsed = NotParsed
    /\ dataA = <<>>
    /\ dataB = <<>>
    /\ hashed = NotHashed
    /\ imageList = <<>>
    /\ rmResult = NotRemoved

\* dockerClient.CreateContainer(ctx, docker.ContainerConfig{Ports:
\* cfg.GetAllPorts(), ...}), which runSession reaches only when cfg.Validate()
\* returned nil, parses the ports first.
PortsCreate ==
    /\ validated.done
    /\ validated.err = ""
    /\ ~parsed.done
    /\ LET r == parsePortMappings(GetAllPorts(portsIn, codeServerIn)) IN
       parsed' = [done |-> TRUE,
                  exposedPorts |-> r.exposedPorts,
                  portBindings |-> r.portBindings,
                  err |-> r.err]
    /\ UNCHANGED <<portsIn, codeServerIn, validated, dataA, dataB, hashed, imageList,
                   rmResult>>
    /\ UNCHANGED <<avars, rvars>>

NextAllPorts ==
    \/ PortsValidate
    \/ PortsCreate

SpecAllPorts == InitAllPorts /\ [][NextAllPorts]_vars

InitHash ==
    /\ InitAttach
    /\ InitAtRest
    /\ portsIn = <<>>
    /\ codeServerIn = NoCodeServer
    /\ validated = NotValidated
    /\ parsed = NotParsed
    /\ dataA \in HashInputs
    /\ dataB \in HashInputs
    /\ hashed = NotHashed
    /\ imageList = <<>>
    /\ rmResult = NotRemoved

\* project.ComputeHash and project.ImageRef applied to the two contents
HashConfigs ==
    /\ ~hashed.done
    /\ hashed' = [done |-> TRUE,
                  tagA |-> ComputeHash(dataA),
                  tagB |-> ComputeHash(dataB),
                  refA |-> ImageRef(GetProjectName(Cwd), ComputeHash(dataA)),
                  refB |-> ImageRef(GetProjectName(Cwd), ComputeHash(dataB))]
    /\ UNCHANGED <<portsIn, codeServerIn, validated, parsed, dataA, dataB, imageList,
                   rmResult>>
    /\ UNCHANGED <<avars, rvars>>

NextHash == HashConfigs

SpecHash == InitHash /\ [][NextHash]_vars

\* ---- RemoveImagesByName applied to one list of images ----

\* The tags of the model: two images of the project, the image of the project
\* whose name starts with this project's name, and an image of no project.
RepoTags ==
    <<ImageRef(GetProjectName(Cwd), ComputeHash(<<>>)),
      ImageRef(GetProjectName(Cwd), ComputeHash(<<1>>)),
      OtherImage,
      "web:latest">>

\* The lists ImageList can answer with n images: every tag is on at most one
\* image, an image has any number of tags, none included.
ImageLists(n) ==
    {[i \in 1..n |->
        [ID |-> i,
         RepoTags |-> SelectSeq(RepoTags,
                                LAMBDA t : \E k \in 1..Len(RepoTags) :
                                              RepoTags[k] = t /\ owner[k] = i)]] :
     owner \in [1..Len(RepoTags) -> 0..n]}

RECURSIVE FirstMatch(_, _, _)
\* The inner loop of RemoveImagesByName: the position of the first tag from j
\* on that is imageName or starts with imageName and ":", 0 if there is none.
FirstMatch(tags, imageName, j) ==
    IF j > Len(tags) THEN 0
    ELSE IF HasPrefix(tags[j], imageName \o ":") \/ tags[j] = imageName THEN j
    ELSE FirstMatch(tags, imageName, j + 1)

RECURSIVE RemoveLoop(_, _, _, _, _, _)
\* The outer loop of RemoveImagesByName from image i on: ImageRemove is called
\* with the ID of an image at its first matching tag, and the loop goes on
\* whether the removal failed (the IDs in failing) or not.
RemoveLoop(list, imageName, failing, i, attempts, removed) ==
    IF i > Len(list) THEN [attempts |-> attempts, removed |-> removed]
    ELSE IF FirstMatch(list[i].RepoTags, imageName, 1) # 0
    THEN RemoveLoop(list, imageName, failing, i + 1,
                    Append(attempts, list[i].ID),
                    IF list[i].ID \in failing THEN removed
                    ELSE removed \cup {list[i].ID})
    ELSE RemoveLoop(list, imageName, failing, i + 1, attempts, removed)

\* ImageRemove(ctx, img.ID, {Force: true, PruneChildren: true}): the engine
\* deletes the image of that ID with every tag it carries.
ImageRemove(list, ids) == SelectSeq(list, LAMBDA img : img.ID \notin ids)

InitImages ==
    /\ InitAttach
    /\ InitAtRest
    /\ portsIn = <<>>
    /\ codeServerIn = NoCodeServer
    /\ validated = NotValidated
    /\ parsed = NotParsed
    /\ dataA = <<>>
    /\ dataB = <<>>
    /\ hashed = NotHashed
    /\ imageList \in ImageLists(MaxImages)
    /\ rmResult = NotRemoved

\* dockerClient.RemoveImagesByName(ctx, imageName) as runDestroy and runRebuild
\* call it, with the engine's answers: whether ImageList succeeds and which
\* images it refuses to remove.
ImagesRemove ==
    /\ ~rmResult.done
    /\ LET imageName == ImageName(GetProjectName(Cwd)) IN
       \E listOK \in BOOLEAN, failing \in SUBSET {imageList[i].ID : i \in 1..Len(imageList)} :
         IF ~listOK
         THEN /\ failing = {}
              /\ rmResult' = [done |-> TRUE, before |-> imageList,
                              attempts |-> <<>>, removed |-> {},
                              err |-> "listing images"]
              /\ UNCHANGED imageList
         ELSE LET r == RemoveLoop(imageList, imageName, failing, 1, <<>>, {}) IN
              /\ rmResult' = [done |-> TRUE, before |-> imageList,
                              attempts |-> r.attempts, removed |-> r.removed,
                              err |-> IF Cardinality(r.removed) = 0
                                      THEN "no images found matching " \o imageName
                                      ELSE ""]
              /\ imageList' = ImageRemove(imageList, r.removed)
    /\ UNCHANGED <<portsIn, codeServerIn, validated, parsed, dataA, dataB, hashed>>
    /\ UNCHANGED <<avars, rvars>>

NextImages == ImagesRemove

SpecImages == InitImages /\ [][NextImages]_vars

\* ---- the init command ----

\* The configuration file is absent.
NoFile == <<0>>

\* emptyConfig, the template init writes: a content of its own.
EmptyConfig == <<NumConfigs + 1>>

\* ConfigExists: os.Stat of the configuration file returns no error.
ConfigExists(dir) == ReadFile(ConfigPath(dir)) # NoFile

\* Two shells in the working directory, which holds a configuration file or
\* none.
InitInit ==
    /\ InitAttach
    /\ InitPure
    /\ configBytes \in Configs \cup {NoFile}
    /\ images = {OtherImage}
    /\ containers = {OtherContainer}
    /\ nextId = 2
    /\ inv = [p \in {1, 2} |-> IdleInv]
    /\ lastUp = NoUp

\* The user deletes the configuration file between two invocations.
RemoveConfig ==
    /\ \A p \in DOMAIN inv : Ended(p)
    /\ configBytes # NoFile
    /\ configBytes' = NoFile
    /\ UNCHANGED <<images, containers, nextId, inv, lastUp>>
    /\ UNCHANGED <<avars, pvars>>

\* A mutant of RunInit: the template is written whether the file exists or not.
RunInitNoCheck(p) ==
    /\ \A q \in DOMAIN inv : Ended(q)
    /\ LET start == [IdleInv EXCEPT !.cmd = "init", !.config = configBytes]
           stat == <<<<"Stat", ConfigPath(Cwd)>>>>
           write == Append(stat, <<"WriteFile", ConfigPath(Cwd)>>)
       IN  /\ configBytes' = EmptyConfig
           /\ inv' = [inv EXCEPT ![p] =
                        [start EXCEPT !.cwd = Cwd, !.calls = write, !.pc = "done"]]
    /\ lastUp' = NoUp
    /\ UNCHANGED <<images, containers, nextId>>
    /\ UNCHANGED <<avars, pvars>>

\* runInit, in a shell with no command under way: os.Getwd, ConfigExists and,
\* when the file is absent, os.WriteFile of the template. A WriteFile that fails
\* has created no file or an empty one.
RunInit(p) ==
    /\ \A q \in DOMAIN inv : Ended(q)
    /\ LET start == [IdleInv EXCEPT !.cmd = "init", !.config = configBytes]
           stat == <<<<"Stat", ConfigPath(Cwd)>>>>
           write == Append(stat, <<"WriteFile", ConfigPath(Cwd)>>)
       IN  \E cwdOK \in BOOLEAN :
             IF ~cwdOK
             THEN /\ inv' = [inv EXCEPT ![p] =
                               [start EXCEPT !.pc = "failed",
                                             !.err = "getting current directory"]]
                  /\ UNCHANGED configBytes
             ELSE IF ConfigExists(Cwd)
             THEN /\ inv' = [inv EXCEPT ![p] =
                               [start EXCEPT !.cwd = Cwd, !.calls = stat,
                                             !.pc = "failed",
                                             !.err = ".rig.yml already exists"]]
                  /\ UNCHANGED configBytes
             ELSE \E left \in {EmptyConfig, NoFile, <<>>} :
                    /\ configBytes' = left
                    /\ inv' = [inv EXCEPT ![p] =
                                 [start EXCEPT
                                    !.cwd = Cwd, !.calls = write,
                                    !.pc = IF left = EmptyConfig
                                           THEN "done" ELSE "failed",
                                    !.err = IF left = EmptyConfig
                                            THEN NoErr ELSE "writing config"]]
    /\ lastUp' = NoUp
    /\ UNCHANGED <<images, containers, nextId>>
    /\ UNCHANGED <<avars, pvars>>

NextInit ==
    \/ EditConfig
    \/ RemoveConfig
    \/ \E p \in DOMAIN inv : RunInit(p)

SpecInit == InitInit /\ [][NextInit]_vars

(***************************************************************************)
(* Properties of Client.Attach, checked under SpecAttach.                  *)
(***************************************************************************)
Count(seq, x) == Cardinality({i \in 1..Len(seq) : seq[i] = x})

\* C1: when Attach returns the not-a-terminal error, no exec instance has been
\* created in the container by that call.
C1_NotATerminalCreatesNoExec ==
    (apc = "returned" /\ retval = "NotATerminal") => execs = 0

\* C2: in every execution in which raw mode was entered, the prior terminal mode
\* is restored exactly once before Attach returns, whatever the join observed and
\* whatever Attach returns; the restore never runs twice and never without raw
\* mode having been entered.
C2_RestoreExactlyOnce ==
    /\ Count(teardown, "restore") <= 1
    /\ Count(teardown, "restore") = 1 => rawEntered
    /\ (apc = "returned" /\ rawEntered) =>
           (Count(teardown, "restore") = 1 /\ ~termRaw)

\* Attach has returned the cancellation error from a session in raw mode while a
\* copy task was still copying, and the terminal is restored.
C2_Witness ==
    /\ apc = "returned"
    /\ rawEntered
    /\ joinObs = "cancel"
    /\ retval = "Canceled"
    /\ copy["in"] = "copying"
    /\ Count(teardown, "restore") = 1

\* C3 as stated: after the attachment stream was opened the teardown runs in the
\* order stop resize subscription, restore terminal, close stream.
C3_TeardownStopRestoreClose ==
    (apc = "returned" /\ stream # "none") =>
        teardown = <<"stop", "restore", "close">>

IsPrefix(s, t) == Len(s) <= Len(t) /\ SubSeq(t, 1, Len(s)) = s

\* C3 amended: on every exit path taken after the attachment stream was opened the
\* three teardown steps each run exactly once, in the order stop the resize
\* subscription, close the attachment stream, restore the prior terminal mode.
C3_TeardownStopCloseRestore ==
    /\ IsPrefix(teardown, <<"stop", "close", "restore">>)
          \/ (stream = "none" /\ teardown \in {<<>>, <<"restore">>})
    /\ (apc = "returned" /\ stream # "none") =>
           teardown = <<"stop", "close", "restore">>

\* Attach returned an I/O error after the stream was opened and all three
\* teardown steps have run.
C3_Witness ==
    /\ apc = "returned"
    /\ stream = "closed"
    /\ retval = "IOError"
    /\ Len(teardown) = 3

\* C4: if at the join point the cancellation has fired and a copy task has already
\* reported a clean end of stream, Attach returns the cancellation error.
C4_CancelBeatsCleanEnd ==
    (apc = "returned" /\ joinBoth) => retval = "Canceled"

(***************************************************************************)
(* Properties of the commands, checked under Spec.                         *)
(***************************************************************************)
Mutating ==
    {"BuildImage", "RemoveContainer", "CreateContainer", "StartContainer",
     "StopContainer"}

\* The operations the invocation of p has issued so far.
Ops(p) == {inv[p].calls[i][1] : i \in 1..Len(inv[p].calls)}

\* The position of the first call c in the log of p, 0 if it was not issued.
Pos(p, c) ==
    IF \E i \in 1..Len(inv[p].calls) : inv[p].calls[i] = c
    THEN CHOOSE i \in 1..Len(inv[p].calls) :
           /\ inv[p].calls[i] = c
           /\ \A j \in 1..(i - 1) : inv[p].calls[j] # c
    ELSE 0

\* The reconcile of p has succeeded: runSession is at its Attach call.
Reconciled(p) == inv[p].cmd = "up" /\ inv[p].pc = "attach"

\* C5: a reconcile that runs right after a reconcile that succeeded, with
\* byte-identical configuration and nothing else having touched the engine,
\* issues no BuildImage, RemoveContainer, CreateContainer, StartContainer or
\* StopContainer.
C5_SecondReconcileMutatesNothing ==
    \A p \in DOMAIN inv :
        (inv[p].cmd = "up" /\ ~Ended(p) /\ lastUp = inv[p].config) =>
            Ops(p) \cap Mutating = {}

\* The second of two reconciles with the same configuration has reached Attach.
C5_Witness ==
    \E p \in DOMAIN inv :
        /\ Reconciled(p)
        /\ lastUp = inv[p].config
        /\ Len(inv[p].calls) = 4

\* The reconcile of p found a container bound to another image than the one
\* computed from the configuration.
FoundStale(p) ==
    /\ inv[p].cmd = "up"
    /\ inv[p].found # NoContainer
    /\ inv[p].currentImage \notin {"", inv[p].imageRef}

\* C6: when a container with the project's name exists and is bound to an image
\* reference other than the computed one, a successful reconcile has removed it
\* and then created a new container under the same name bound to the computed
\* reference; the old id is never started or attached to.
C6_StaleContainerReplaced ==
    \A p \in DOMAIN inv :
        FoundStale(p) =>
            /\ <<"StartContainer", inv[p].found>> \notin
                   {inv[p].calls[i] : i \in 1..Len(inv[p].calls)}
            /\ <<"Attach", inv[p].found>> \notin
                   {inv[p].calls[i] : i \in 1..Len(inv[p].calls)}
            /\ Reconciled(p) =>
                  /\ ~Exists(inv[p].found)
                  /\ Pos(p, <<"RemoveContainer", inv[p].found>>) > 0
                  /\ Pos(p, <<"RemoveContainer", inv[p].found>>)
                        < Pos(p, <<"CreateContainer", inv[p].containerName>>)
                  /\ inv[p].containerID # inv[p].found
                  /\ Named(inv[p].containerName) =
                        {[id |-> inv[p].containerID,
                          names |-> {"/" \o inv[p].containerName},
                          image |-> inv[p].imageRef,
                          workDir |-> inv[p].cwd,
                          env |-> inv[p].env,
                          command |-> inv[p].command,
                          running |-> TRUE]}

\* A reconcile that found a stale container has reached Attach.
C6_Witness ==
    \E p \in DOMAIN inv : FoundStale(p) /\ Reconciled(p)

\* C7 as stated: when the found container's image differs and the container is
\* running, StopContainer is issued for it before the forced RemoveContainer.
C7_StopBeforeRemove ==
    \A p \in DOMAIN inv :
        (FoundStale(p) /\ inv[p].wasRunning
           /\ Pos(p, <<"RemoveContainer", inv[p].found>>) > 0) =>
            /\ Pos(p, <<"StopContainer", inv[p].found>>) > 0
            /\ Pos(p, <<"StopContainer", inv[p].found>>)
                  < Pos(p, <<"RemoveContainer", inv[p].found>>)

\* C7 amended: when the found container's bound image differs from the computed
\* image reference, reconcile issues the forced RemoveContainer for it and
\* nothing else, whether the container is running or not; reconcile never
\* issues StopContainer, and it removes no container in any other case.
C7_ForcedRemoveOnly ==
    \A p \in DOMAIN inv :
        inv[p].cmd = "up" =>
            /\ "StopContainer" \notin Ops(p)
            /\ (FoundStale(p) /\ inv[p].pc # "remove") =>
                  Cardinality({i \in 1..Len(inv[p].calls) :
                      inv[p].calls[i] = <<"RemoveContainer", inv[p].found>>}) = 1
            /\ "RemoveContainer" \in Ops(p) => FoundStale(p)

\* A running container bound to another image has been removed by reconcile.
C7_Witness ==
    \E p \in DOMAIN inv :
        /\ FoundStale(p)
        /\ inv[p].wasRunning
        /\ inv[p].pc = "create"
        /\ ~Exists(inv[p].found)

\* C8: whenever reconcile goes on to start or attach to a container it did not
\* create in this invocation, that container's bound image reference equals the
\* image reference computed from the current configuration.
C8_ReusedContainerHasCurrentImage ==
    \A p \in DOMAIN inv :
        (inv[p].cmd = "up" /\ inv[p].pc \in {"isRunning", "start", "attach"}
           /\ ~inv[p].created) =>
            /\ Exists(inv[p].containerID)
            /\ ContainerOf(inv[p].containerID).image = inv[p].imageRef
            /\ inv[p].imageRef = ImageRef(GetProjectName(Cwd), ComputeHash(configBytes))

\* Reconcile is about to start a stopped container it found.
C8_Witness ==
    \E p \in DOMAIN inv :
        /\ inv[p].cmd = "up"
        /\ inv[p].pc = "start"
        /\ ~inv[p].created
        /\ inv[p].found = inv[p].containerID

\* C9: with the commands run one after the other, at most one container carries
\* the project's container name, and CreateContainer is only issued by a
\* reconcile whose lookup found none or whose found container has been removed.
C9_OneContainerPerName ==
    /\ Cardinality(Named(ContainerName(GetProjectName(Cwd)))) <= 1
    /\ \A p \in DOMAIN inv :
         "CreateContainer" \in Ops(p) =>
            /\ inv[p].cmd = "up"
            /\ Pos(p, <<"FindContainer", inv[p].containerName>>) > 0
            /\ Pos(p, <<"FindContainer", inv[p].containerName>>)
                  < Pos(p, <<"CreateContainer", inv[p].containerName>>)
            /\ \/ inv[p].found = NoContainer
               \/ /\ ~Exists(inv[p].found)
                  /\ Pos(p, <<"RemoveContainer", inv[p].found>>) > 0
                  /\ Pos(p, <<"RemoveContainer", inv[p].found>>)
                        < Pos(p, <<"CreateContainer", inv[p].containerName>>)

\* Every id of the model has been handed out, no invocation is under way and the
\* project has its one container.
C9_Witness ==
    /\ nextId = MaxIds + 1
    /\ \A p \in DOMAIN inv : Ended(p)
    /\ Cardinality(Named(ContainerName(GetProjectName(Cwd)))) = 1

\* C10: whenever reconcile reaches the Attach call, the id handed to Attach names
\* a container that exists under the project's container name, is running and is
\* bound to the image reference computed from the current configuration, and
\* that image exists in the engine.
C10_AttachTargetIsReady ==
    \A p \in DOMAIN inv :
        Reconciled(p) =>
            /\ Exists(inv[p].containerID)
            /\ ("/" \o ContainerName(GetProjectName(Cwd)))
                  \in ContainerOf(inv[p].containerID).names
            /\ ContainerOf(inv[p].containerID).running
            /\ ContainerOf(inv[p].containerID).image
                  = ImageRef(GetProjectName(Cwd), ComputeHash(configBytes))
            /\ ImageExists(ImageRef(GetProjectName(Cwd), ComputeHash(configBytes)))

\* Reconcile reaches Attach with a container it has built the image for, created
\* and started in this invocation.
C10_Witness ==
    \E p \in DOMAIN inv :
        /\ Reconciled(p)
        /\ inv[p].created
        /\ {"BuildImage", "CreateContainer", "StartContainer"} \subseteq Ops(p)

\* The runtime calls that act on or look at a container.
ContainerCalls ==
    {"FindContainer", "GetContainerImage", "RemoveContainer", "CreateContainer",
     "IsContainerRunning", "StartContainer", "StopContainer", "Attach"}

\* The build stage of the reconcile of p has failed.
BuildStageFailed(p) ==
    /\ inv[p].cmd = "up"
    /\ \/ inv[p].err = "generating dockerfile"
       \/ HasPrefix(inv[p].err, "building image: ")

\* C11: when the build stage of a reconcile has failed (the Dockerfile could not
\* be generated, the build could not be started, or the progress stream held an
\* error or could not be decoded), the invocation has ended with that error and
\* has issued no container call: no FindContainer, inspection, RemoveContainer,
\* CreateContainer, StartContainer or Attach.
C11_FailedBuildNoContainerCall ==
    \A p \in DOMAIN inv :
        BuildStageFailed(p) =>
            /\ inv[p].pc = "failed"
            /\ Ops(p) \cap ContainerCalls = {}

\* The build of a reconcile failed on an error in the progress stream while a
\* container of the project, bound to another image, exists.
C11_Witness ==
    \E p \in DOMAIN inv :
        /\ inv[p].err = "building image: streaming build output: build error"
        /\ inv[p].cmd = "up"
        /\ Named(inv[p].containerName) # {}

\* C12: when CreateContainer or StartContainer has failed in a reconcile, the
\* invocation has ended with that error, Attach was not called, and a failed
\* CreateContainer has left the invocation without a container id.
C12_FailedCreateOrStartNoAttach ==
    \A p \in DOMAIN inv :
        (inv[p].cmd = "up"
           /\ inv[p].err \in {"creating container", "starting container"}) =>
            /\ inv[p].pc = "failed"
            /\ "Attach" \notin Ops(p)
            /\ inv[p].err = "creating container" =>
                  (inv[p].containerID = NoContainer /\ ~inv[p].created)

\* A reconcile created its container and then failed to start it.
C12_Witness ==
    \E p \in DOMAIN inv :
        /\ inv[p].cmd = "up"
        /\ inv[p].err = "starting container"
        /\ inv[p].created
        /\ Exists(inv[p].containerID)

\* The runtime call whose failure the stage name of runSession reports.
StageCall(stage) ==
    CASE stage = "checking image" -> "ImageExists"
      [] HasPrefix(stage, "building image: ") -> "BuildImage"
      [] stage = "finding container" -> "FindContainer"
      [] stage = "getting container image" -> "GetContainerImage"
      [] stage = "removing old container" -> "RemoveContainer"
      [] stage = "creating container" -> "CreateContainer"
      [] stage = "checking container status" -> "IsContainerRunning"
      [] stage = "starting container" -> "StartContainer"
      [] stage = "attaching to container" -> "Attach"
      [] OTHER -> "none"

\* How often the invocation of p has issued the runtime operation op.
Issued(p, op) ==
    Cardinality({i \in 1..Len(inv[p].calls) : inv[p].calls[i][1] = op})

\* C13: in a reconcile, once a runtime call has returned an error the invocation
\* has ended with an error and the failed call is the last one it issued; no
\* runtime operation is issued a second time in one invocation.
C13_FirstErrorEndsReconcile ==
    \A p \in DOMAIN inv :
        inv[p].cmd = "up" =>
            /\ (inv[p].err # NoErr /\ StageCall(inv[p].err) # "none") =>
                  /\ inv[p].pc = "failed"
                  /\ inv[p].calls # <<>>
                  /\ inv[p].calls[Len(inv[p].calls)][1] = StageCall(inv[p].err)
            /\ inv[p].pc = "failed" => inv[p].err # NoErr
            /\ \A op \in {"ImageExists", "BuildImage", "FindContainer",
                          "GetContainerImage", "RemoveContainer",
                          "CreateContainer", "IsContainerRunning",
                          "StartContainer", "Attach"} :
                  Issued(p, op) <= 1

\* A reconcile ended on the failed removal of the stale container it found, its
\* fourth and last runtime call.
C13_Witness ==
    \E p \in DOMAIN inv :
        /\ inv[p].cmd = "up"
        /\ inv[p].err = "removing old container"
        /\ Len(inv[p].calls) = 4
        /\ Exists(inv[p].found)

(***************************************************************************)
(* Further properties of Client.Attach, checked under SpecAttach.          *)
(***************************************************************************)
\* C14: once the join point of Attach has fired (the cancellation was observed or
\* the result of a copy task was received), no ContainerExecResize is issued for
\* the session any more.
C14_NoResizeAfterJoin == ~lateResize

\* C15: in every execution of Attach that starts a copy task, the initial
\* propagation of the terminal size has returned before the first copy task was
\* started, and it ran with the attachment stream open.
C15_InitialResizeBeforeCopy ==
    /\ (\E t \in CopyTasks : copy[t] # "off") =>
          /\ initResize.done
          /\ initResize.stream = "open"
          /\ initResize.copying = {}
    /\ initResize.done => (initResize.stream = "open" /\ initResize.copying = {})

\* Both copy tasks are running after an initial resize that reached the engine.
C15_Witness ==
    /\ \A t \in CopyTasks : copy[t] = "copying"
    /\ initResize.done
    /\ initResize.sent
    /\ apc = "select"

\* Both copy tasks of the session have been started.
CopiesStarted == \A t \in CopyTasks : copy[t] # "off"

\* A copy task has finished, or the caller's cancellation has fired.
JoinEvent == ctxDone \/ \E t \in CopyTasks : copy[t] \in {"sending", "done"}

\* C16, checked under SpecAttachLive: once the copy tasks are started, Attach
\* returns when a copy task has finished or the cancellation has fired, and it
\* does not go past its join point while neither has happened: a copy result
\* was taken only from a task that has finished, the cancellation only after it
\* fired.
C16_ReturnsOnFirstJoinEvent ==
    /\ [](CopiesStarted /\ apc \in {"select2", "returning", "returned"}
            => joinObs # "none" /\ JoinEvent)
    /\ [](joinObs = "copy" => \E t \in CopyTasks : copy[t] = "done")
    /\ [](joinObs = "cancel" => ctxDone)
    /\ ((apc = "select" /\ JoinEvent) ~> (apc = "returned"))

\* Attach has returned on the result of one copy task while the other one is
\* still copying and the caller has not cancelled.
C16_Witness ==
    /\ apc = "returned"
    /\ joinObs = "copy"
    /\ ~ctxDone
    /\ \E t \in CopyTasks : copy[t] = "copying"

(***************************************************************************)
(* Two concurrent reconciles, checked under SpecConcurrent.                *)
(***************************************************************************)
\* C17: nothing in reconcile stands between an invocation's lookup and its
\* CreateContainer: an invocation waiting to create has no container id, and
\* the next thing it does is issue CreateContainer for the project's container
\* name, whatever the other invocation has done to the engine since the lookup.
\* So two invocations that both found no container both issue CreateContainer
\* for the same name.
C17_NothingBetweenLookupAndCreate ==
    /\ [](\A p \in DOMAIN inv :
            inv[p].pc = "create" =>
               /\ inv[p].containerID = NoContainer
               /\ "FindContainer" \in Ops(p)
               /\ "CreateContainer" \notin Ops(p))
    /\ [][\A p \in DOMAIN inv :
            (inv[p].pc = "create" /\ inv'[p] # inv[p]) =>
               inv'[p].calls = Append(inv[p].calls,
                                      <<"CreateContainer",
                                        ContainerName(GetProjectName(Cwd))>>)]_vars

\* Both invocations found no container and both have issued CreateContainer for
\* the same container name.
C17_Witness ==
    /\ \A p \in DOMAIN inv :
         /\ inv[p].cmd = "up"
         /\ inv[p].found = NoContainer
         /\ <<"FindContainer", ContainerName(GetProjectName(Cwd))>>
               \in {inv[p].calls[i] : i \in 1..Len(inv[p].calls)}
         /\ <<"CreateContainer", ContainerName(GetProjectName(Cwd))>>
               \in {inv[p].calls[i] : i \in 1..Len(inv[p].calls)}
    /\ Cardinality(DOMAIN inv) = 2

(***************************************************************************)
(* Port specs, checked under SpecPorts.                                    *)
(***************************************************************************)
\* The number of colons of a spec.
Colons(spec) == Cardinality({i \in 1..Len(spec) : SubSeq(spec, i, i) = ":"})

\* The position of the colon of a spec that has exactly one.
ColonAt(spec) == CHOOSE i \in 1..Len(spec) : SubSeq(spec, i, i) = ":"

\* The host part and the container part of a spec "<p>" or "<h>:<c>".
HostPart(spec) ==
    IF Colons(spec) = 0 THEN spec ELSE SubSeq(spec, 1, ColonAt(spec) - 1)

ContainerPart(spec) ==
    IF Colons(spec) = 0 THEN spec ELSE SubSeq(spec, ColonAt(spec) + 1, Len(spec))

\* s is a decimal number: digits, at least one, after an optional sign.
IsNumber(s) ==
    LET signed == Len(s) > 0 /\ SubSeq(s, 1, 1) \in {"+", "-"}
        digits == Cardinality({i \in 1..Len(s) : SubSeq(s, i, i) \in Digits})
    IN  digits > 0 /\ digits = Len(s) - (IF signed THEN 1 ELSE 0)

\* A spec of the form "<p>" or "<h>:<c>" with numeric parts.
WellFormed(spec) ==
    /\ Colons(spec) <= 1
    /\ IsNumber(HostPart(spec))
    /\ IsNumber(ContainerPart(spec))

C19_ImageRefIsFunctionOfBytes ==
    \A p \in DOMAIN inv :
        inv[p].cmd = "up" =>
            /\ inv[p].imageRef =
                  ImageName(GetProjectName(Cwd)) \o ":"
                     \o SubSeq(FullHash(inv[p].config), 1, 12)
            /\ Len(inv[p].imageRef) = Len(ImageName(GetProjectName(Cwd))) + 1 + 12
            /\ \A q \in DOMAIN inv :
                  (inv[q].cmd = "up" /\ inv[q].config = inv[p].config) =>
                     inv[q].imageRef = inv[p].imageRef

\* Two reconciles have read the same non-empty configuration, one of them after
\* the other has created the container, and hold the same reference.
C19_Witness ==
    /\ \A p \in DOMAIN inv : inv[p].cmd = "up" /\ inv[p].config # <<>>
    /\ inv[1].config = inv[2].config
    /\ inv[1].imageRef = inv[2].imageRef
    /\ inv[1].created
    /\ inv[2].found # NoContainer

FoundCurrent(p) ==
    /\ inv[p].cmd = "up"
    /\ inv[p].found # NoContainer
    /\ inv[p].currentImage = inv[p].imageRef

\* The operations of the calls of p, in the order they were issued.
OpSeq(p) == [i \in 1..Len(inv[p].calls) |-> inv[p].calls[i][1]]

Bound(cs) == {[id |-> c.id, names |-> c.names, image |-> c.image] : c \in cs}

\* The invocation of p is a down command that has not returned yet.
DownUnderWay(p) == inv[p].cmd = "down" /\ ~Ended(p)

\* C22: a down command issues, besides its inspections, nothing but
\* StopContainer and the wait that follows it. It returns success with no
\* mutating call when the project has no container or the container is
\* stopped; it stops the container when it is running, and the container still
\* exists afterwards. No step of a down command changes the images, removes or
\* creates a container, or touches a container other than the one it stops.
C22_DownOnlyStops ==
    /\ [](\A p \in DOMAIN inv :
            inv[p].cmd = "down" =>
              /\ Ops(p) \subseteq {"FindContainer", "IsContainerRunning",
                                   "StopContainer", "WaitContainer"}
              /\ inv[p].pc = "done" =>
                   /\ inv[p].err = NoErr
                   /\ \/ /\ OpSeq(p) = <<"FindContainer">>
                         /\ Named(inv[p].containerName) = {}
                      \/ /\ OpSeq(p) = <<"FindContainer", "IsContainerRunning">>
                         /\ ContainerOf(inv[p].containerID) \in Named(inv[p].containerName)
                         /\ ~ContainerOf(inv[p].containerID).running
                      \/ /\ OpSeq(p) = <<"FindContainer", "IsContainerRunning",
                                         "StopContainer", "WaitContainer">>
                         /\ Exists(inv[p].containerID)
                         /\ ContainerOf(inv[p].containerID) \in Named(inv[p].containerName)
                         /\ ~ContainerOf(inv[p].containerID).running)
    /\ [][\A p \in DOMAIN inv :
            DownUnderWay(p) =>
              /\ images' = images
              /\ Bound(containers') = Bound(containers)
              /\ containers' # containers =>
                   /\ ContainerOf(inv[p].containerID).running
                   /\ containers' = StopContainer(inv[p].containerID)
                   /\ inv'[p].pc = "done"
              /\ ("StopContainer" \in Ops(p)' /\ "StopContainer" \notin Ops(p)) =>
                   ContainerOf(inv[p].containerID).running]_vars

\* A down command has stopped the running container of the project and
\* returned; the container is still there.
C22_Witness ==
    \E p \in DOMAIN inv :
        /\ inv[p].cmd = "down"
        /\ inv[p].pc = "done"
        /\ Len(inv[p].calls) = 4
        /\ Exists(inv[p].containerID)
        /\ ~ContainerOf(inv[p].containerID).running

\* The invocation of p issues the runtime operation op in this step.
Issues(p, op) == Issued(p, op)' = Issued(p, op) + 1

\* C23: a destroy command that found the project's container stops it when it is
\* running and then issues the forced RemoveContainer for it; the images are
\* removed only after the container step, as the last call of the command.
\* After a destroy that returned success the project's container name is not in
\* use, and the command returns success whatever became of the image removal.
C23_DestroyContainerThenImages ==
    /\ [](\A p \in DOMAIN inv :
            inv[p].cmd = "destroy" =>
              /\ "RemoveImagesByName" \in Ops(p) =>
                   /\ inv[p].pc = "done"
                   /\ inv[p].calls[Len(inv[p].calls)][1] = "RemoveImagesByName"
              /\ inv[p].pc = "done" =>
                   /\ inv[p].err = NoErr
                   /\ Named(inv[p].containerName) = {}
                   /\ OpSeq(p) \in
                        {<<"FindContainer", "RemoveImagesByName">>,
                         <<"FindContainer", "IsContainerRunning",
                           "RemoveContainer", "RemoveImagesByName">>,
                         <<"FindContainer", "IsContainerRunning", "StopContainer",
                           "WaitContainer", "RemoveContainer",
                           "RemoveImagesByName">>}
              /\ inv[p].pc = "failed" =>
                   inv[p].err \in {"finding container", "checking container status",
                                   "stopping container", "removing container"})
    /\ [][\A p \in DOMAIN inv :
            (inv[p].cmd = "destroy" /\ ~Ended(p)) =>
              /\ Issues(p, "StopContainer") =>
                   ContainerOf(inv[p].containerID).running
              /\ Issues(p, "RemoveContainer") =>
                   /\ inv'[p].calls[Len(inv'[p].calls)]
                         = <<"RemoveContainer", inv[p].containerID>>
                   /\ Exists(inv[p].containerID) =>
                         ~ContainerOf(inv[p].containerID).running
              /\ images' # images =>
                   /\ Issues(p, "RemoveImagesByName")
                   /\ Named(inv[p].containerName) = {}
                   /\ inv[p].containerID # NoContainer =>
                         "RemoveContainer" \in Ops(p)]_vars

\* A destroy command has stopped and removed the running container of the
\* project and returned success although an image of the project is left.
C23_Witness ==
    \E p \in DOMAIN inv :
        /\ inv[p].cmd = "destroy"
        /\ inv[p].pc = "done"
        /\ Len(inv[p].calls) = 6
        /\ MatchingImages(ImageName(GetProjectName(Cwd))) # {}
        /\ Named(inv[p].containerName) = {}

(***************************************************************************)
(* The phases of Client.Attach, checked under SpecAttachLive.              *)
(***************************************************************************)
\* The phase of the session: 0 nothing done, 1 exec instance created, 2 raw mode
\* entered, 3 attachment stream opened, 4 copy tasks running, 5 closed (Attach
\* has returned).
Phase ==
    IF apc = "returned" THEN 5
    ELSE IF \E t \in CopyTasks : copy[t] # "off" THEN 4
    ELSE IF stream # "none" THEN 3
    ELSE IF rawEntered THEN 2
    ELSE IF execs > 0 THEN 1
    ELSE 0

\* A step of the goroutine that runs Attach.
AttachStep ==
    \/ AttachCall
    \/ AttachExecCreate
    \/ AttachIsTerminal
    \/ AttachSetRaw
    \/ AttachExecAttach
    \/ AttachGoHandleResize
    \/ AttachInitialResize
    \/ AttachNotify
    \/ AttachGoSignal
    \/ AttachGoCopyOut
    \/ AttachGoCopyIn
    \/ AttachSelect
    \/ AttachSelect2
    \/ AttachRunDeferred
    \/ AttachReturned

\* Every deferred call that was registered has run.
TeardownDone ==
    /\ defers = <<>>
    /\ ~termRaw
    /\ stream # "open"
    /\ ~sigNotify
    /\ Len(teardown) = (IF rawEntered THEN 1 ELSE 0)
                       + (IF stream # "none" THEN 1 ELSE 0)
                       + (IF sg # "off" THEN 1 ELSE 0)

\* C24: an execution of Attach goes through its phases in the order exec
\* instance created, raw mode entered, attachment stream opened, copy tasks
\* running, closed: a step keeps the phase, enters the next one or closes, and
\* a later phase is never held without the earlier ones. Closed means Attach
\* has returned with the teardown done; it is final, every other state has a
\* successor, and once a return value is fixed, the cancellation has fired or a
\* copy task has ended at the join, Attach reaches closed.
C24_PhasesInOrderEndClosed ==
    /\ [](/\ rawEntered => execs = 1
          /\ stream # "none" => rawEntered
          /\ (\E t \in CopyTasks : copy[t] # "off") => stream # "none"
          /\ apc = "returned" => (TeardownDone /\ retval # "none")
          /\ apc = "returned" => ~ENABLED AttachStep
          /\ apc # "returned" =>
                ENABLED (AttachStep \/ Cancel \/ \E t \in CopyTasks : CopyEnd(t)))
    /\ [][/\ Phase' \in {Phase, Phase + 1, 5}
          /\ Phase = 5 =>
                UNCHANGED <<apc, retval, teardown, termRaw, stream, defers,
                            sigNotify, execs, rawEntered>>]_vars
    /\ (retval # "none") ~> (apc = "returned")
    /\ (apc = "select" /\ ctxDone) ~> (apc = "returned")
    /\ (apc = "select" /\ \E t \in CopyTasks : copy[t] \in {"sending", "done"})
          ~> (apc = "returned")

\* Attach has returned nil after the copy tasks were started: the session went
\* through every phase and all three teardown steps have run.
C24_Witness ==
    /\ Phase = 5
    /\ retval = "nil"
    /\ execs = 1
    /\ rawEntered
    /\ stream = "closed"
    /\ \A t \in CopyTasks : copy[t] # "off"
    /\ Len(teardown) = 3

(***************************************************************************)
(* Further properties of Client.Attach, checked under SpecAttach.          *)
(***************************************************************************)
\* C25: the value Attach returns from its join is fixed by what the first
\* select takes: the cancellation error when it takes the cancellation, an I/O
\* error when it takes the result of a copy task that failed, nil when it takes
\* a clean result, whatever the other copy task has delivered or delivers
\* later; a return value, once fixed, does not change.
C25_FirstJoinEventDecides ==
    /\ [](/\ joinObs = "cancel" => retval = "Canceled"
          /\ (joinObs = "copy" /\ retval # "none") => retval \in {"nil", "IOError"}
          /\ retval \in {"nil", "IOError", "Canceled"} => joinObs # "none")
    /\ [][/\ (joinObs = "none" /\ joinObs' = "cancel") =>
                (ctxDone /\ retval' = "Canceled" /\ errCh' = errCh)
          /\ (joinObs = "none" /\ joinObs' = "copy") =>
                /\ errCh # <<>>
                /\ Head(errCh) = "err" => (retval' = "IOError" /\ apc' = "returning")
                /\ Head(errCh) = "nil" => (retval' = "none" /\ apc' = "select2")
          /\ (apc = "select2" /\ apc' # "select2") => retval' = "nil"
          /\ retval # "none" => retval' = retval]_vars

\* Attach has returned nil on the clean end of one copy task although the other
\* copy task failed and its result was taken off the channel and dropped.
C25_Witness ==
    /\ apc = "returned"
    /\ retval = "nil"
    /\ \E t \in CopyTasks : copy[t] = "done" /\ copyErr[t] = "err"
    /\ \A t \in CopyTasks : copy[t] = "done"
    /\ errCh = <<>>

(***************************************************************************)
(* The resize goroutines, checked under SpecAttachSched.                   *)
(***************************************************************************)
\* C26: once Attach has returned, the goroutines it started for resize
\* handling (handleResize and the SIGWINCH goroutine) come to an end.
C26_ResizeUnitsTerminate ==
    (apc = "returned") ~> (hr # "waiting" /\ sg # "waiting")

(***************************************************************************)
(* Resize failures, checked under SpecAttach.                              *)
(***************************************************************************)
\* The values Attach returns.
AttachResults ==
    {"ExecCreateErr", "NotATerminal", "SetRawErr", "AttachErr", "nil", "IOError",
     "Canceled"}

\* C27: a resize propagation that fails, the initial one or one that follows a
\* SIGWINCH, because the window size cannot be read or because
\* ContainerExecResize returns an error, leaves the return value, the join and
\* the copy tasks as they are: the initial one goes on to the signal
\* subscription, a later one leaves Attach where it is. After a failed resize
\* Attach still returns only from its join, with the value the join fixes.
C27_ResizeFailureSwallowed ==
    /\ [](/\ retval \in AttachResults \cup {"none"}
          /\ (resizeFailed /\ retval # "none") =>
                /\ joinObs # "none"
                /\ joinObs = "cancel" => retval = "Canceled"
                /\ joinObs = "copy" => retval \in {"nil", "IOError"})
    /\ [][(resizeFailed' /\ ~resizeFailed) =>
            /\ UNCHANGED <<retval, joinObs, errCh, copy, copyErr, stream, defers,
                           ctxDone, termRaw, sigNotify, hr, sg>>
            /\ apc' = IF apc = "initialResize" THEN "notify" ELSE apc]_vars
    /\ [][(resizes' # resizes \/ sigCh' < sigCh \/ initResize' # initResize) =>
            /\ UNCHANGED <<retval, joinObs, errCh, copy, copyErr, stream, defers,
                           ctxDone, termRaw, sigNotify, hr, sg>>
            /\ apc' = IF apc = "initialResize" THEN "notify" ELSE apc]_vars

\* Attach has returned nil from a session whose initial resize could not read
\* the window size and in which a resize after a SIGWINCH was attempted too.
C27_Witness ==
    /\ apc = "returned"
    /\ retval = "nil"
    /\ resizeFailed
    /\ initResize.done
    /\ ~initResize.sent
    /\ winch > 0
    /\ sigCh = 0

(***************************************************************************)
(* The build stage of reconcile, checked under Spec.                       *)
(***************************************************************************)
\* ImageExists has told the reconcile of p that the image is absent.
ImageAbsentSeen(p) ==
    \/ inv[p].pc \in {"generate", "build"}
    \/ inv[p].err = "generating dockerfile"
    \/ "BuildImage" \in Ops(p)

C29_RebuildContainerImagesBuild ==
    /\ [](\A p \in DOMAIN inv :
            /\ inv[p].cmd = "rebuild" =>
                 /\ Ops(p) \subseteq {"FindContainer", "RemoveContainer",
                                      "RemoveImagesByName", "BuildImage"}
                 /\ IsPrefix(OpSeq(p), <<"FindContainer", "RemoveImagesByName",
                                         "BuildImage">>)
                      \/ IsPrefix(OpSeq(p), <<"FindContainer", "RemoveContainer",
                                              "RemoveImagesByName", "BuildImage">>)
                 /\ inv[p].imageRef
                       = ImageRef(GetProjectName(Cwd), ComputeHash(inv[p].config))
                 /\ inv[p].pc = "done" =>
                      /\ inv[p].err = NoErr
                      /\ inv[p].calls[Len(inv[p].calls)]
                            = <<"BuildImage", inv[p].imageRef>>
                      /\ Named(inv[p].containerName) = {}
                      /\ inv[p].imageRef \in images
            /\ (inv[p].cmd = "up" /\ inv[p].rebuilt = inv[p].config) =>
                 /\ "BuildImage" \notin Ops(p)
                 /\ "RemoveContainer" \notin Ops(p)
                 /\ inv[p].pc = "attach" =>
                      /\ OpSeq(p) = <<"ImageExists", "FindContainer",
                                      "CreateContainer", "IsContainerRunning",
                                      "StartContainer">>
                      /\ inv[p].created)
    /\ [][\A p \in DOMAIN inv :
            (inv[p].cmd = "rebuild" /\ ~Ended(p)) =>
              /\ nextId' = nextId
              /\ containers' \subseteq containers
              /\ containers' # containers =>
                   /\ Issues(p, "RemoveContainer")
                   /\ containers' = {c \in containers : c.id # inv[p].containerID}
                   /\ ContainerOf(inv[p].containerID) \in Named(inv[p].containerName)
              /\ (images' # images /\ ~Issues(p, "BuildImage")) =>
                   /\ Issues(p, "RemoveImagesByName")
                   /\ images' \subseteq images
                   /\ Named(inv[p].containerName) = {}
              /\ Issues(p, "BuildImage") =>
                   /\ "RemoveImagesByName" \in Ops(p)
                   /\ images' \in {images, images \cup {inv[p].imageRef}}]_vars

\* A reconcile that follows a successful rebuild of the same configuration has
\* created and started a fresh container and is about to attach.
C29_Witness ==
    \E p \in DOMAIN inv :
        /\ inv[p].cmd = "up"
        /\ inv[p].rebuilt = inv[p].config
        /\ inv[p].pc = "attach"
        /\ inv[p].created
        /\ "BuildImage" \notin Ops(p)

(***************************************************************************)
(* Early failures of Client.Attach, checked under SpecAttach.              *)
(***************************************************************************)
\* No goroutine, signal subscription or resize of the session was ever started.
NothingStarted ==
    /\ hr = "off"
    /\ sg = "off"
    /\ \A t \in CopyTasks : copy[t] = "off"
    /\ ~sigNotify
    /\ winch = 0
    /\ sigCh = 0
    /\ resizes = 0
    /\ ~initResize.done
    /\ "stop" \notin {teardown[i] : i \in 1..Len(teardown)}
    /\ "stop" \notin {defers[i] : i \in 1..Len(defers)}

\* C30: when ContainerExecAttach fails, raw mode having been entered, Attach
\* returns that error with the terminal restored, the restore being the only
\* teardown step, and no resize goroutine, signal subscription or copy task was
\* ever started; when SetRawTerminal fails, Attach returns that error with
\* nothing started, nothing deferred and no restore attempted.
C30_EarlyFailureStartsNothing ==
    /\ retval = "AttachErr" =>
          /\ NothingStarted
          /\ rawEntered
          /\ stream = "none"
          /\ apc \in {"returning", "returned"}
          /\ apc = "returned" => (~termRaw /\ teardown = <<"restore">>)
          /\ apc = "returning" =>
                (defers = <<"restore">> /\ teardown = <<>>)
                   \/ (defers = <<>> /\ teardown = <<"restore">>)
    /\ retval = "SetRawErr" =>
          /\ NothingStarted
          /\ ~rawEntered
          /\ ~termRaw
          /\ stream = "none"
          /\ defers = <<>>
          /\ teardown = <<>>
          /\ apc \in {"returning", "returned"}

\* Attach has returned the error of ContainerExecAttach: the terminal, which was
\* put into raw mode, is restored, and the caller has cancelled meanwhile.
C30_Witness ==
    /\ apc = "returned"
    /\ retval = "AttachErr"
    /\ rawEntered
    /\ ~termRaw
    /\ teardown = <<"restore">>
    /\ ctxDone

(***************************************************************************)
(* The result channel of the copy tasks, checked under SpecAttachLive.     *)
(***************************************************************************)
\* C31: a copy task whose io.Copy has returned can send its result at once,
\* whatever Attach is doing, because errCh has room for the results of both
\* tasks; it sends once and is done, so every such task comes to its end, also
\* after Attach has returned.
C31_CopyResultNeverBlocks ==
    /\ [](/\ \A t \in CopyTasks : copy[t] = "sending" => ENABLED CopySend(t)
          /\ Len(errCh) <= Cardinality({t \in CopyTasks : copy[t] = "done"})
          /\ Len(errCh) <= ErrChCap)
    /\ [][/\ \A t \in CopyTasks : copy[t] = "done" => copy'[t] = "done"
          /\ Len(errCh') > Len(errCh) =>
                \E t \in CopyTasks :
                   /\ copy[t] = "sending"
                   /\ copy' = [copy EXCEPT ![t] = "done"]
                   /\ errCh' = Append(errCh, copyErr[t])]_vars
    /\ \A t \in CopyTasks : (copy[t] = "sending") ~> (copy[t] = "done")

\* Attach has returned on the cancellation; both copy tasks have ended since
\* and their results lie in errCh, which nobody reads any more.
C31_Witness ==
    /\ apc = "returned"
    /\ joinObs = "cancel"
    /\ \A t \in CopyTasks : copy[t] = "done"
    /\ Len(errCh) = ErrChCap

(***************************************************************************)
(* What the reuse of a container depends on, checked under SpecAnywhere.   *)
(***************************************************************************)
\* The reconcile of p goes on with a container it did not create.
Reused(p) ==
    /\ inv[p].cmd = "up"
    /\ inv[p].pc \in {"isRunning", "start", "attach", "done"}
    /\ ~inv[p].created

\* C32: a reconcile reuses the container it found exactly when the container,
\* found by the name made of the directory's base name, is bound to the image
\* reference of the invocation; the directory mounted into the container, its
\* environment and its command play no part in the decision, which is taken
\* from the name and the image alone.
C32_ReuseByNameAndImageOnly ==
    /\ [](\A p \in DOMAIN inv :
            Reused(p) =>
               /\ inv[p].found # NoContainer
               /\ inv[p].containerID = inv[p].found
               /\ inv[p].currentImage = inv[p].imageRef
               /\ inv[p].containerName = ContainerName(GetProjectName(inv[p].cwd)))
    /\ [][\A p \in DOMAIN inv :
            (inv[p].pc = "getImage" /\ inv'[p].pc \notin {"getImage", "failed"}) =>
               LET c == ContainerOf(inv[p].containerID) IN
                 /\ ("/" \o inv[p].containerName) \in c.names
                 /\ inv'[p].pc = (IF c.image = inv[p].imageRef
                                  THEN "isRunning" ELSE "remove")]_vars

\* A reconcile has come to its end with a container it reused although the
\* container mounts another directory, one with the same base name, and
\* carries another environment than the invocation would have given it.
C32_Witness ==
    \E p \in DOMAIN inv :
        /\ Reused(p)
        /\ inv[p].pc = "done"
        /\ Exists(inv[p].containerID)
        /\ ContainerOf(inv[p].containerID).workDir # inv[p].cwd
        /\ ContainerOf(inv[p].containerID).env # inv[p].env
        /\ ContainerOf(inv[p].containerID).command = inv[p].command

(***************************************************************************)
(* Validated ports reach the container, checked under SpecAllPorts.        *)
(***************************************************************************)
\* C33: when Config.Validate has accepted the port list of a configuration,
\* parsePortMappings accepts the list GetAllPorts makes of it, with the
\* code-server port appended or not: CreateContainer returns no port-parsing
\* error and every spec of the list has its binding.
C33_ValidatedPortsParse ==
    LET all == GetAllPorts(portsIn, codeServerIn) IN
    /\ (validated.done /\ validated.err = "") => parsePortMappings(all).err = ""
    /\ parsed.done =>
          /\ parsed.err = ""
          /\ \A i \in 1..Len(all) :
                LET parts == Split(all[i], ":")
                    natPort == parts[Len(parts)] \o "/tcp"
                IN  /\ natPort \in parsed.exposedPorts
                    /\ natPort \in DOMAIN parsed.portBindings

\* CreateContainer has parsed a validated list that holds a mapping of two
\* ports and to which GetAllPorts has appended the code-server port.
C33_Witness ==
    /\ parsed.done
    /\ codeServerIn.CodeServer
    /\ Len(GetAllPorts(portsIn, codeServerIn)) = Len(portsIn) + 1
    /\ \E i \in 1..Len(portsIn) : Len(Split(portsIn[i], ":")) = 2
    /\ Cardinality(parsed.exposedPorts) >= 2

(***************************************************************************)
(* RemoveImagesByName, checked under SpecImages.                           *)
(***************************************************************************)
\* The tag is one of the project of image name imageName.
TagOf(tag, imageName) == HasPrefix(tag, imageName \o ":") \/ tag = imageName

Elems(seq) == {seq[i] : i \in 1..Len(seq)}

\* The tags on the images of a list.
TagsIn(list) == UNION {Elems(list[i].RepoTags) : i \in 1..Len(list)}

\* The images of a list that carry a tag of the project.
OwnImages(list, imageName) ==
    {img \in Elems(list) : \E t \in Elems(img.RepoTags) : TagOf(t, imageName)}

\* C34: RemoveImagesByName attempts the removal of exactly the images with a
\* tag of the project, each once; the tags of every other project, the one
\* whose name starts with this project's name included, are on an image after
\* the call as before; an error is returned exactly when no image was removed,
\* and a removal that fails does not end the loop.
C34_OnlyOwnImagesTouched ==
    rmResult.done =>
       LET imageName == ImageName(GetProjectName(Cwd))
           before == rmResult.before
       IN  /\ rmResult.err # "listing images" =>
                /\ Elems(rmResult.attempts)
                      = {img.ID : img \in OwnImages(before, imageName)}
                /\ \A id \in Elems(rmResult.attempts) :
                      Count(rmResult.attempts, id) = 1
           /\ rmResult.removed \subseteq Elems(rmResult.attempts)
           /\ \A t \in TagsIn(before) :
                 ~TagOf(t, imageName) => t \in TagsIn(imageList)
           /\ (rmResult.err # "") <=> (rmResult.removed = {})

\* What holds of RemoveImagesByName: as C34, but only the images that carry no
\* tag of the project are sure to be left as they were.
C34_ImagesWithoutOwnTagKept ==
    rmResult.done =>
       LET imageName == ImageName(GetProjectName(Cwd))
           before == rmResult.before
       IN  /\ rmResult.err # "listing images" =>
                /\ Elems(rmResult.attempts)
                      = {img.ID : img \in OwnImages(before, imageName)}
                /\ \A id \in Elems(rmResult.attempts) :
                      Count(rmResult.attempts, id) = 1
           /\ rmResult.removed \subseteq Elems(rmResult.attempts)
           /\ \A img \in Elems(before) \ OwnImages(before, imageName) :
                 img \in Elems(imageList)
           /\ Elems(imageList) = {img \in Elems(before) : img.ID \notin rmResult.removed}
           /\ (rmResult.err # "") <=> (rmResult.removed = {})

\* Two images of the project were attempted, the removal of one failed and the
\* loop went on to remove the other; the other project's image is in place.
C34_LoopGoesOn ==
    /\ rmResult.done
    /\ Len(rmResult.attempts) = 2
    /\ Cardinality(rmResult.removed) = 1
    /\ rmResult.err = ""
    /\ OtherImage \in TagsIn(imageList)

(***************************************************************************)
(* The lookup of the container by name, checked under Spec.                *)
(***************************************************************************)
\* The positions at which a command calls FindContainer.
FindSteps == {"find", "downFind", "destroyFind", "rebuildFind"}

\* C35: a FindContainer that returns without error gives the id of a container
\* of the engine, running or stopped, one of whose names is "/" followed by the
\* name asked for, and the empty id only when no container has that name; the
\* container of the other project, whose name starts with the name asked for,
\* is never what it gives.
C35_FindContainerExactName ==
    [][\A p \in DOMAIN inv :
         (inv[p].pc \in FindSteps /\ inv'[p].pc \notin FindSteps \cup {"failed"}) =>
            LET name == inv[p].containerName
                id == inv'[p].containerID
            IN  /\ name = "devbox-app"
                /\ id # NoContainer =>
                      /\ Exists(id)
                      /\ ("/" \o name) \in ContainerOf(id).names
                      /\ id # OtherContainer.id
                /\ id = NoContainer =>
                      \A c \in containers : ("/" \o name) \notin c.names]_vars

\* A lookup has given the id of the project's container, which is stopped,
\* while the running container /devbox-app2 is in the list too.
C35_Witness ==
    \E p \in DOMAIN inv :
        /\ inv[p].cmd \in {"down", "destroy", "rebuild"}
        /\ inv[p].pc \notin FindSteps \cup {"idle", "failed"}
        /\ inv[p].calls = <<<<"FindContainer", inv[p].containerName>>>>
        /\ inv[p].containerID # NoContainer
        /\ Exists(inv[p].containerID)
        /\ ~ContainerOf(inv[p].containerID).running
        /\ OtherContainer \in containers

(***************************************************************************)
(* The init command, checked under SpecInit.                               *)
(***************************************************************************)
\* The step is a run of init in shell p.
InitRuns(p) == inv'[p] # inv[p]

====
